---- MODULE Spec2Model ----
(***************************************************************************)
(* Terminal agent: shell policy validator, command executor (bash_tool /   *)
(* powershell_tool), persistent shell session handle and the approval      *)
(* loop of main.run.                                                       *)
(*                                                                         *)
(* Strings are sequences of one-character strings.  A Path object is its   *)
(* string; Path.resolve() gives the sequence of components of the          *)
(* absolute, normalised path (the filesystem is taken to hold no symbolic  *)
(* links, so resolution is lexical).                                       *)
(***************************************************************************)
EXTENDS Naturals, Sequences, FiniteSets

VARIABLES
    cfg,        \* ShellPolicyConfig handed to ShellPolicyMiddleware (self.cfg)
    proc_cwd,   \* working directory of the Python process (resolved parts)
    vcall,      \* last call of _validate_command: arguments and returned tuple
    shell_type, \* default_shell of main.run, the ShellSessionConfig.shell_type
    thread_id,  \* config["configurable"]["thread_id"] of main.run
    pc,         \* position of main.run
    state_obj,  \* main.run: the snapshot agent.get_state returned
    resume_payload, \* main.run: the payload built from the human's decision
    rt,         \* orchestration runtime: the graph's position on its thread
    policy_hook,\* what ShellPolicyMiddleware.after_model last found and did
    session_map,\* state["resources"]["shell_session"]: one handle per shell kind
    orphans,    \* live shell subprocesses no handle of session_map refers to
    exec,       \* bash_tool / powershell_tool: locals of the running call
    tool_result,\* what the last shell tool call returned
    decided,    \* history: the decision last submitted for the pending call
    prompt,     \* the decision prompt: what was typed and the payload built
    sess,       \* a _ShellSession object: its subprocess, queue and run() call
    callers     \* threads inside run() of the one session: the locals of each

(***************************************************************************)
(* Strings                                                                 *)
(***************************************************************************)
IsSpace(c) == c \in {" ", "\n"}

\* str.lower() on the characters of the model's alphabets
LowerChar(c) ==
    CASE c = "R" -> "r"
      [] c = "L" -> "l"
      [] c = "M" -> "m"
      [] c = "S" -> "s"
      [] OTHER -> c

Lower(s) == [i \in 1..Len(s) |-> LowerChar(s[i])]

RECURSIVE LStrip(_)
LStrip(s) == IF s # <<>> /\ IsSpace(Head(s)) THEN LStrip(Tail(s)) ELSE s

RECURSIVE RStrip(_)
RStrip(s) ==
    IF s # <<>> /\ IsSpace(s[Len(s)]) THEN RStrip(SubSeq(s, 1, Len(s) - 1)) ELSE s

\* str.strip()
Strip(s) == RStrip(LStrip(s))

\* the longest prefix of s holding no whitespace
RECURSIVE TakeToken(_)
TakeToken(s) ==
    IF s = <<>> \/ IsSpace(Head(s)) THEN <<>> ELSE <<Head(s)>> \o TakeToken(Tail(s))

\* s.startswith(p)
StartsWith(s, p) == Len(p) <= Len(s) /\ SubSeq(s, 1, Len(p)) = p

(***************************************************************************)
(* Text of a process's output                                              *)
(***************************************************************************)
\* the text of s up to its first line break
RECURSIVE TakeLine(_)
TakeLine(s) ==
    IF s = <<>> \/ Head(s) = "\n" THEN <<>> ELSE <<Head(s)>> \o TakeLine(Tail(s))

\* str.splitlines()
RECURSIVE SplitLines(_)
SplitLines(s) ==
    IF s = <<>> THEN <<>>
    ELSE LET l == TakeLine(s)
         IN  <<l>> \o SplitLines(SubSeq(s, Len(l) + 2, Len(s)))

\* "\n".join(lines)
RECURSIVE JoinLines(_)
JoinLines(lines) ==
    IF lines = <<>> THEN <<>>
    ELSE IF Len(lines) = 1 THEN Head(lines)
    ELSE Head(lines) \o <<"\n">> \o JoinLines(Tail(lines))

\* lines.index(x) for a line x that is in lines
IndexOf(lines, x) == CHOOSE i \in 1..Len(lines) :
                        lines[i] = x /\ \A k \in 1..(i - 1) : lines[k] # x

\* what a process prints: every line ended by a line break
RECURSIVE Printed(_)
Printed(lines) ==
    IF lines = <<>> THEN <<>> ELSE Head(lines) \o <<"\n">> \o Printed(Tail(lines))

(***************************************************************************)
(* Paths                                                                   *)
(***************************************************************************)
\* the text of s up to its first "/"
RECURSIVE TakeComp(_)
TakeComp(s) ==
    IF s = <<>> \/ Head(s) = "/" THEN <<>> ELSE <<Head(s)>> \o TakeComp(Tail(s))

\* pathlib's parsing of a path string into components: empty components
\* and "." are dropped, ".." is kept
RECURSIVE PathParts(_)
PathParts(s) ==
    IF s = <<>> THEN <<>>
    ELSE IF Head(s) = "/" THEN PathParts(Tail(s))
    ELSE LET c == TakeComp(s)
             rest == PathParts(SubSeq(s, Len(c) + 1, Len(s)))
         IN  IF c = <<".">> THEN rest ELSE <<c>> \o rest

IsAbsStr(s) == s # <<>> /\ Head(s) = "/"

\* ".." removes the component before it; at the filesystem root it is dropped
RECURSIVE Normalize(_, _)
Normalize(done, todo) ==
    IF todo = <<>> THEN done
    ELSE IF Head(todo) = <<".", ".">>
         THEN Normalize(IF done = <<>> THEN <<>> ELSE SubSeq(done, 1, Len(done) - 1),
                        Tail(todo))
         ELSE Normalize(Append(done, Head(todo)), Tail(todo))

\* Path(s).resolve(): absolute (relative to the process directory), normalised
Resolve(s) ==
    Normalize(<<>>, (IF IsAbsStr(s) THEN <<>> ELSE proc_cwd) \o PathParts(s))

\* str(path) of a resolved path
RECURSIVE JoinParts(_)
JoinParts(p) == IF p = <<>> THEN <<>> ELSE <<"/">> \o Head(p) \o JoinParts(Tail(p))

PathStr(p) == IF p = <<>> THEN <<"/">> ELSE JoinParts(p)

IsPrefix(p, q) == Len(p) <= Len(q) /\ SubSeq(q, 1, Len(p)) = p

\* PurePath.is_relative_to: component-wise prefix
IsRelativeTo(p, root) == IsPrefix(root, p)

\* os.path.commonpath([a, b]) of two absolute path strings: the longest
\* common leading run of components, as a string
RECURSIVE CommonParts(_, _)
CommonParts(p, q) ==
    IF p = <<>> \/ q = <<>> \/ Head(p) # Head(q) THEN <<>>
    ELSE <<Head(p)>> \o CommonParts(Tail(p), Tail(q))

commonpath(a, b) == PathStr(CommonParts(PathParts(a), PathParts(b)))

(***************************************************************************)
(* ShellPolicyMiddleware                                                   *)
(***************************************************************************)
_first_token(cmd) == IF Strip(cmd) # <<>> THEN TakeToken(Strip(cmd)) ELSE <<>>

\* the except branch of _within_root taken: a prefix test on the strings
WithinRootByString(cwd) ==
    IF ~cfg.enforce_root_jail THEN TRUE
    ELSE StartsWith(PathStr(Resolve(cwd)), PathStr(Resolve(cfg.root_dir)))

_within_root(cwd) ==
    IF ~cfg.enforce_root_jail THEN TRUE
    ELSE IsRelativeTo(Resolve(cwd), Resolve(cfg.root_dir))

Verdict(allowed, text, arg) == [allowed |-> allowed, text |-> text, arg |-> arg]

\* the deny-list test left out
ValidateNoDenyList(cmd, powershell, cwd) ==
    IF Strip(cmd) = <<>> THEN Verdict(FALSE, "Empty command.", <<>>)
    ELSE IF Len(cmd) > cfg.max_command_len
    THEN Verdict(FALSE, "Command too long", <<>>)
    ELSE LET verb == _first_token(cmd)
             v == Lower(verb)
         IN  IF powershell /\ ~(\E a \in cfg.allowed_pwsh : Lower(a) = v)
             THEN Verdict(FALSE, "not in allowed PowerShell commands", verb)
             ELSE IF ~powershell /\ verb \notin cfg.allowed_bash
             THEN Verdict(FALSE, "not in allowed Bash commands", verb)
             ELSE IF ~_within_root(cwd)
             THEN Verdict(FALSE, "outside sandbox", cwd)
             ELSE Verdict(TRUE, "", <<>>)

\* the allow-list test left out
ValidateNoAllowList(cmd, powershell, cwd) ==
    IF Strip(cmd) = <<>> THEN Verdict(FALSE, "Empty command.", <<>>)
    ELSE IF Len(cmd) > cfg.max_command_len
    THEN Verdict(FALSE, "Command too long", <<>>)
    ELSE LET verb == _first_token(cmd)
             v == Lower(verb)
         IN  IF powershell /\ (\E d \in cfg.dangerous_pwsh : Lower(d) = v)
             THEN Verdict(FALSE, "Dangerous command", verb)
             ELSE IF ~powershell /\ verb \in cfg.dangerous_bash
             THEN Verdict(FALSE, "Dangerous command", verb)
             ELSE IF ~_within_root(cwd)
             THEN Verdict(FALSE, "outside sandbox", cwd)
             ELSE Verdict(TRUE, "", <<>>)

\* both shells compared the way Bash is: exact case
ValidateCaseSensitive(cmd, powershell, cwd) ==
    IF Strip(cmd) = <<>> THEN Verdict(FALSE, "Empty command.", <<>>)
    ELSE IF Len(cmd) > cfg.max_command_len
    THEN Verdict(FALSE, "Command too long", <<>>)
    ELSE LET verb == _first_token(cmd)
         IN  IF powershell /\ verb \in cfg.dangerous_pwsh
             THEN Verdict(FALSE, "Dangerous command", verb)
             ELSE IF powershell /\ verb \notin cfg.allowed_pwsh
             THEN Verdict(FALSE, "not in allowed PowerShell commands", verb)
             ELSE IF ~powershell /\ verb \in cfg.dangerous_bash
             THEN Verdict(FALSE, "Dangerous command", verb)
             ELSE IF ~powershell /\ verb \notin cfg.allowed_bash
             THEN Verdict(FALSE, "not in allowed Bash commands", verb)
             ELSE IF ~_within_root(cwd)
             THEN Verdict(FALSE, "outside sandbox", cwd)
             ELSE Verdict(TRUE, "", <<>>)

\* the length test made >= and moved after the verb tests
ValidateLengthLate(cmd, powershell, cwd) ==
    IF Strip(cmd) = <<>> THEN Verdict(FALSE, "Empty command.", <<>>)
    ELSE LET verb == _first_token(cmd)
             v == Lower(verb)
         IN  IF powershell /\ (\E d \in cfg.dangerous_pwsh : Lower(d) = v)
             THEN Verdict(FALSE, "Dangerous command", verb)
             ELSE IF powershell /\ ~(\E a \in cfg.allowed_pwsh : Lower(a) = v)
             THEN Verdict(FALSE, "not in allowed PowerShell commands", verb)
             ELSE IF ~powershell /\ verb \in cfg.dangerous_bash
             THEN Verdict(FALSE, "Dangerous command", verb)
             ELSE IF ~powershell /\ verb \notin cfg.allowed_bash
             THEN Verdict(FALSE, "not in allowed Bash commands", verb)
             ELSE IF Len(cmd) >= cfg.max_command_len
             THEN Verdict(FALSE, "Command too long", <<>>)
             ELSE IF ~_within_root(cwd)
             THEN Verdict(FALSE, "outside sandbox", cwd)
             ELSE Verdict(TRUE, "", <<>>)

\* a validator with memory: its answer depends on the calls made before
ValidateWithMemory(cmd, powershell, cwd) ==
    IF vcall.called THEN Verdict(FALSE, "Empty command", <<>>) ELSE Verdict(TRUE, "", <<>>)

_validate_command(cmd, powershell, cwd) ==
    IF Strip(cmd) = <<>> THEN Verdict(FALSE, "Empty command.", <<>>)
    ELSE IF Len(cmd) > cfg.max_command_len
    THEN Verdict(FALSE, "Command too long", <<>>)
    ELSE LET verb == _first_token(cmd)
             v == Lower(verb)
         IN  IF powershell /\ (\E d \in cfg.dangerous_pwsh : Lower(d) = v)
             THEN Verdict(FALSE, "Dangerous command", verb)
             ELSE IF powershell /\ ~(\E a \in cfg.allowed_pwsh : Lower(a) = v)
             THEN Verdict(FALSE, "not in allowed PowerShell commands", verb)
             ELSE IF ~powershell /\ verb \in cfg.dangerous_bash
             THEN Verdict(FALSE, "Dangerous command", verb)
             ELSE IF ~powershell /\ verb \notin cfg.allowed_bash
             THEN Verdict(FALSE, "not in allowed Bash commands", verb)
             ELSE IF ~_within_root(cwd)
             THEN Verdict(FALSE, "outside sandbox", cwd)
             ELSE Verdict(TRUE, "", <<>>)

(***************************************************************************)
(* Inputs of the model                                                     *)
(***************************************************************************)
MaxCmdLen == 4

CmdAlphabet == {" ", "r", "R", "l"}

\* every command string of at most MaxCmdLen characters
Commands == UNION {[1..n -> CmdAlphabet] : n \in 0..MaxCmdLen}

RootStr == <<"/", "s">>

\* working directories: the root, a directory under it, a sibling whose
\* name starts with the root's, a directory elsewhere, a path leaving the
\* root through "..", a relative path
CwdInputs ==
    { <<"/", "s">>,
      <<"/", "s", "/", "u">>,
      <<"/", "s", "2">>,
      <<"/", "e">>,
      <<"/", "s", "/", ".", ".", "/", "e">>,
      <<"u">> }

\* the directories the Python process may have been started in
ProcCwds == { <<<<"s">>>>, <<<<"e">>>> }

EnforceModes == {"auto_block", "warn_only", "defer_to_hitl"}

PolicyConfig(ab, db, ap, dp, jail, maxlen, mode) ==
    [ allowed_bash |-> ab, dangerous_bash |-> db,
      allowed_pwsh |-> ap, dangerous_pwsh |-> dp,
      root_dir |-> RootStr, enforce_root_jail |-> jail,
      max_command_len |-> maxlen, enforce_mode |-> mode ]

\* ShellPolicyConfig values: the verb lists disjoint, overlapping (a verb
\* both allowed and denied) and differing from a verb only in case
PolicyConfigs ==
    { PolicyConfig(l.ab, l.db, l.ap, l.dp, jail, maxlen, "auto_block") :
        l \in { [ab |-> {<<"l">>}, db |-> {<<"r">>},
                 ap |-> {<<"L">>}, dp |-> {<<"R">>}],
                [ab |-> {<<"l">>, <<"r">>}, db |-> {<<"r">>},
                 ap |-> {<<"l">>, <<"R">>}, dp |-> {<<"r">>}],
                [ab |-> {<<"R">>, <<"l", "l">>}, db |-> {<<"l">>},
                 ap |-> {<<"R", "l">>}, dp |-> {<<"l", "L">>}] },
        jail \in BOOLEAN,
        maxlen \in {MaxCmdLen - 1, MaxCmdLen} }

NoVerdict == Verdict(FALSE, "(not called)", <<>>)

NoCall ==
    [ called |-> FALSE, cmd |-> <<>>, powershell |-> FALSE, cwd |-> <<>>,
      result |-> NoVerdict ]

(***************************************************************************)
(* Inputs of the agent run                                                 *)
(***************************************************************************)
\* tool calls the model may issue in one user turn
MaxToolCalls == 2

\* shell subprocesses left alive with no handle referring to them
MaxOrphans == 1

Kinds == {"bash", "powershell"}

ShellTools == {"bash_tool", "powershell_tool"}

ToolKind(name) == IF name = "bash_tool" THEN "bash" ELSE "powershell"

\* the thread id main.run draws (uuid4): one value stands for any
Threads == {"t1"}

CmdRm == <<"r", "m", " ", "-", "r", "f", " ", "/">>
CmdLs == <<"l", "s">>
CmdCd == <<"c", "d", " ", "u">>
CmdLsU == <<"l", "s", " ", "u">>
CmdBlank == <<" ">>

\* AppConfig.from_env().shell_policy as build_agent hands it on: the verb
\* lists (abridged), jailing on, the length limit, mode "auto_block"
BuiltConfigs ==
    { PolicyConfig({CmdLs, <<"c", "d">>}, {<<"r", "m">>},
                   {<<"L", "s">>, <<"C", "d">>}, {<<"R", "m">>},
                   TRUE, 8000, "auto_block") }

\* the commands argument of a tool call
Batches ==
    { <<CmdRm>>, <<CmdLs>>, <<CmdLs, CmdRm>>, <<CmdLs, CmdCd, CmdLsU>>,
      <<>>, <<CmdBlank>>, <<CmdBlank, CmdLs>> }

Absent == [given |-> FALSE, val |-> <<>>]

Given(s) == [given |-> TRUE, val |-> s]

\* the cwd argument of a tool call
CallCwds == { Absent, Given(<<"/", "s", "/", "u">>), Given(<<"/", "e">>) }

ToolCalls ==
    { [name |-> n, commands |-> b, cwd |-> c] :
        n \in ShellTools, b \in Batches, c \in CallCwds }

NoToolCall == [name |-> "", commands |-> <<>>, cwd |-> Absent]

\* what the human types at the decision prompt
DecisionInputs == { <<"a">>, <<" ", "A">>, <<"r">>, <<"a", "b", "o", "r", "t">>,
                    <<"n">>, <<>> }

(***************************************************************************)
(* bash_tool / powershell_tool                                             *)
(***************************************************************************)
_MARKER(kind) == IF kind = "bash" THEN <<"#", "b">> ELSE <<"#", "p">>

\* the tools' module-level POLICY: the same environment as the middleware's
POLICY == [root_dir |-> cfg.root_dir, enforce_root_jail |-> cfg.enforce_root_jail]

\* the blank test left out: only an empty list is refused
InvalidInputEmptyOnly(commands) == commands = <<>>

\* _validate_non_empty: no command, or blank commands only
InvalidInput(commands) ==
    commands = <<>> \/ \A i \in 1..Len(commands) : Strip(commands[i]) = <<>>

\* a session of any shell kind taken for the tool's own
HasSessionOfAnyKind(kind) == \E k \in Kinds : session_map[k] # "none"

\* session_map.get(kind) is truthy: the map holds a session handle for the
\* tool's shell kind
HasSession(kind) == session_map[kind] # "none"

\* the clamp left out: the path is taken as it resolves
ClampNever(path) == path

\* the sandbox clamp of a resolved path
Clamp(path) ==
    IF POLICY.enforce_root_jail
    THEN LET root_r == Resolve(POLICY.root_dir)
         IN  IF commonpath(PathStr(root_r), PathStr(path)) # PathStr(root_r)
             THEN root_r ELSE path
    ELSE path

\* the caller's directory ignored: every batch starts at the root
StartCwdAtRoot(cwd) == Clamp(Resolve(POLICY.root_dir))

\* the starting directory of a batch
StartCwd(cwd) ==
    Clamp(Resolve(IF cwd.given /\ cwd.val # <<>> THEN cwd.val ELSE POLICY.root_dir))

\* the marker looked for from the end of the output
CommandResultAtLastMarker(kind, cmd, cwd_path, rc, stdout, stderr) ==
    LET lines == SplitLines(stdout)
        has == \E i \in 1..Len(lines) : lines[i] = _MARKER(kind)
        idx == CHOOSE i \in 1..Len(lines) :
                 lines[i] = _MARKER(kind) /\ \A k \in (i + 1)..Len(lines) : lines[k] # _MARKER(kind)
        output_lines == IF has THEN SubSeq(lines, 1, idx - 1) ELSE lines
        new_cwd == IF has /\ idx + 1 <= Len(lines) /\ Strip(lines[idx + 1]) # <<>>
                   THEN Strip(lines[idx + 1]) ELSE PathStr(cwd_path)
    IN  [ cmd |-> cmd, returncode |-> rc, stdout |-> Strip(JoinLines(output_lines)),
          stderr |-> Strip(stderr), cwd |-> new_cwd ]

\* the result of one command from what was captured
CommandResult(kind, cmd, cwd_path, rc, stdout, stderr) ==
    LET lines == SplitLines(stdout)
        has == \E i \in 1..Len(lines) : lines[i] = _MARKER(kind)
        idx == IndexOf(lines, _MARKER(kind))
        output_lines == IF has THEN SubSeq(lines, 1, idx - 1) ELSE lines
        new_cwd == IF has /\ idx + 1 <= Len(lines) /\ Strip(lines[idx + 1]) # <<>>
                   THEN Strip(lines[idx + 1]) ELSE PathStr(cwd_path)
    IN  [ cmd |-> cmd, returncode |-> rc, stdout |-> Strip(JoinLines(output_lines)),
          stderr |-> Strip(stderr), cwd |-> new_cwd ]

\* the except branch of the one-shot path: x.decode() of a captured output
\* x that is not empty is defined for bytes and raises AttributeError for str
DecodeRaises(o) == o.captured = "str" /\ (o.stdout # <<>> \/ o.stderr # <<>>)

\* a session.run that returned nothing (the read deadline passed before a
\* line arrived) reported as a failure
SessionSuccessUnlessEmpty(kind, cmd, cwd_path, out) ==
    CommandResult(kind, cmd, cwd_path, IF out = <<>> THEN 1 ELSE 0, out, <<>>)

\* the try branch of the session path: session.run returned out
SessionSuccess(kind, cmd, cwd_path, out) ==
    CommandResult(kind, cmd, cwd_path, 0, out, <<>>)

\* a failed session.run taken for a run without output
SessionFailureUnnoticed(kind, cmd, cwd_path) ==
    CommandResult(kind, cmd, cwd_path, 0, <<>>, <<>>)

\* the except branch of the session path: session.run raised
SessionFailure(kind, cmd, cwd_path) ==
    CommandResult(kind, cmd, cwd_path, 1, <<>>, <<"[SESSION ERROR]">>)

\* the loop never leaves on a failed command
haltsNever(res) == FALSE

\* the test that ends the batch
halts(res) == res.returncode # 0

\* the failure return reporting success
ReturnAlwaysSuccess(success, results, cwd_path) ==
    [ status |-> "returned", success |-> TRUE, results |-> results,
      cwd |-> PathStr(cwd_path) ]

\* the dict a tool call returns
ReturnValue(success, results, cwd_path) ==
    [ status |-> "returned", success |-> success, results |-> results,
      cwd |-> PathStr(cwd_path) ]

NoResult == [status |-> "none", success |-> FALSE, results |-> <<>>, cwd |-> <<>>]

InvalidResult == [NoResult EXCEPT !.status = "invalid"]

RaisedResult == [NoResult EXCEPT !.status = "raised"]

\* how the execution of one command ended: the process exit, the timeout of
\* subprocess.run (captured: the type of the output TimeoutExpired carries),
\* a process that could not be started, session.run returning or raising
Outcome(type, rc, stdout, stderr, captured) ==
    [type |-> type, rc |-> rc, stdout |-> stdout, stderr |-> stderr, captured |-> captured]

NoOutcome == Outcome("none", 0, <<>>, <<>>, "")

IdleExec ==
    [ phase |-> "idle", kind |-> "", commands |-> <<>>, session |-> FALSE,
      cwd_path |-> <<>>, results |-> <<>>, i |-> 0, last |-> NoOutcome ]

(***************************************************************************)
(* What the shells print                                                   *)
(***************************************************************************)
Hi == <<"h", "i">>

Sentinel == <<"$">>

\* output of a wrapped command: with the marker and a directory after it
\* (under the root, a sibling of the root, elsewhere), with the marker
\* last, with a blank line after it, without the marker
Outputs(kind) ==
    { Printed(<<Hi, _MARKER(kind), <<"/", "s", "/", "u">>>>),
      Printed(<<_MARKER(kind), <<"/", "s", "2">>>>),
      Printed(<<_MARKER(kind), <<"/", "e">>>>),
      Printed(<<Hi, _MARKER(kind)>>),
      Printed(<<_MARKER(kind), <<" ">>>>),
      Printed(<<Hi>>) }

\* a one-shot process: it exits with a code, runs into the timeout, or
\* cannot be started
OneShotOutcomes(kind) ==
    { Outcome("exit", 0, o, <<>>, "") : o \in Outputs(kind) }
    \cup { Outcome("exit", 2, Printed(<<_MARKER(kind), <<"/", "s">>>>), Printed(<<<<"e">>>>), ""),
           Outcome("exit", 1, <<>>, Printed(<<<<"e">>>>), ""),
           Outcome("timeout", 0, Printed(<<Hi>>), <<>>, "bytes"),
           Outcome("timeout", 0, Printed(<<Hi>>), <<>>, "str"),
           Outcome("timeout", 0, <<>>, <<>>, "str"),
           Outcome("oserror", 0, <<>>, <<>>, "") }

\* session.run on a live session: the lines up to the sentinel, or what
\* arrived before the read timeout
SessionOutputs(kind) ==
    { o \o Printed(<<Sentinel>>) : o \in Outputs(kind) } \cup { <<>> }

(***************************************************************************)
(* _ShellSession: the subprocess, the line queue and run()                 *)
(***************************************************************************)
\* read_timeout_sec, counted in polls of the queue (0.1 s each)
ReadTimeoutPolls == 2

\* run() calls on one session
MaxRuns == 2

\* the clock never passes the last possible deadline
MaxTime == MaxRuns * ReadTimeoutPolls + 1

\* terminate() calls on one session
MaxTerminates == 2

\* a line of output: its text, the sentinel it contains (0: none) and the
\* run() call whose write made the shell print it; of a session, emitted
\* records the lines _pump has put on the queue and delivered the lines
\* run() calls have returned, both in order
Line(text, end, by) == [text |-> text, end |-> end, by |-> by]

\* what the shell prints for "command; echo sentinel": the sentinel line
\* alone, after a line of output, on the line of an output that does not
\* end in a newline, or before a line that a job the command left in the
\* background prints
ShellReplies(id, call) ==
    { <<Line("", id, call)>>, <<Line("o", 0, call), Line("", id, call)>>,
      <<Line("o", id, call)>>, <<Line("", id, call), Line("bg", 0, call)>> }

ClosedMarker == <<Line("[session closed]", 0, 0)>>

\* int(time.time() * 1000) of a call: the value the call before it read if
\* no millisecond has passed since, else a later one (no_poll_since: not
\* even a poll of 0.1 s has passed)
Sentinels(last, no_poll_since) ==
    IF last > 0 /\ no_poll_since THEN {last, last + 1} ELSE {last + 1}

\* the loop left at the sentinel line of any call
EndsLoopOnAny(line, sentinel) == line.end # 0

\* sentinel in line
EndsLoop(line, sentinel) == line.end = sentinel

\* the line put in front of the lines waiting
EnqueueFirst(q, line) == <<line>> \o q

\* self._out_q.put_nowait(line)
Enqueue(q, line) == Append(q, line)

\* the deadline test left out of the loop
TimedOutNever(now, deadline) == FALSE

\* the negation of the loop condition time.time() < deadline
TimedOut(now, deadline) == ~(now < deadline)

NoSession ==
    [ proc |-> "none", stdin |-> "none", todo |-> <<>>, q |-> <<>>, pos |-> "idle",
      id |-> 0, buf |-> <<>>, now |-> 0, deadline |-> 0, ret |-> <<>>, calls |-> 0,
      dead_at_call |-> FALSE, terminated |-> FALSE,
      used |-> <<>>, called_at |-> 0, terminates |-> 0, signals |-> 0,
      emitted |-> <<>>, delivered |-> <<>> ]

\* after __init__: the subprocess runs, stdin is its pipe, the queue is empty
NewSession == [NoSession EXCEPT !.proc = "running", !.stdin = "pipe"]

\* the threads of the tools node that run shell tool calls side by side
CallerIds == {"A", "B"}

\* the locals of run() in one thread: sentinel, buf, deadline, what it
\* returned (call: the number of the call on the session)
NoFrame ==
    [pos |-> "idle", id |-> 0, call |-> 0, buf |-> <<>>, deadline |-> 0, ret |-> <<>>]

NoCallers == [t \in CallerIds |-> NoFrame]

(***************************************************************************)
(* main.py: the resume payload                                             *)
(***************************************************************************)
\* an action request as the code inspects it: a dict, a list (whose first
\* element, a dict, carries the keys) or anything else; an absent key and
\* an empty value read alike ("")
ActionRequest(shape, tool, action, name) ==
    [shape |-> shape, tool |-> tool, action |-> action, name |-> name]

_extract_tool_name(action_request) ==
    IF action_request.shape \in {"dict", "list"}
    THEN IF action_request.tool # "" THEN action_request.tool
         ELSE IF action_request.action # "" THEN action_request.action
         ELSE action_request.name
    ELSE ""

\* the value of an interrupt as the code inspects it: None, a list (of
\* dicts; has: the key action_request is present) or a single structure
NoValue == [shape |-> "none", items |-> <<>>, self |-> ActionRequest("dict", "", "", "")]

ListValue(items) == [NoValue EXCEPT !.shape = "list", !.items = items]

SingleValue(structure) == [NoValue EXCEPT !.shape = "single", !.self = structure]

Item(has, action_request) == [has |-> has, action_request |-> action_request]

\* {}
EmptyStructure == ActionRequest("dict", "", "", "")

\* the list shape not looked into: a value is the action, or there is none
ActionOfSingleOnly(value) ==
    IF value.shape = "single" THEN value.self ELSE EmptyStructure

\* value[0].get("action_request", {}) of a list that is not empty, else
\* value or {}
ActionOf(value) ==
    IF value.shape = "list" /\ value.items # <<>>
    THEN IF value.items[1].has THEN value.items[1].action_request ELSE EmptyStructure
    ELSE IF value.shape = "single" THEN value.self
    ELSE EmptyStructure

\* the tool name left out of the item
BuildWithoutTool(decision, action_request) ==
    IF decision = "approve"
    THEN [decisions |-> <<[type |-> "approve", tool |-> ""]>>]
    ELSE [decisions |-> <<[type |-> "reject", tool |-> ""]>>]

build_resume_payload(decision, action_request) ==
    LET tool_name == _extract_tool_name(action_request)
    IN  IF decision = "approve"
        THEN [decisions |-> <<[type |-> "approve", tool |-> tool_name]>>]
        ELSE IF decision = "reject"
        THEN [decisions |-> <<[type |-> "reject", tool |-> tool_name]>>]
        ELSE [decisions |-> <<[type |-> "reject", tool |-> tool_name]>>]

\* terminal_agent/main.py: the payload for what was typed at the prompt
PackagePayload(typed, action_request) ==
    LET decision == Lower(Strip(typed))
    IN  IF StartsWith(decision, <<"a">>)
        THEN build_resume_payload("approve", action_request)
        ELSE IF StartsWith(decision, <<"r">>)
        THEN build_resume_payload("reject", action_request)
        ELSE build_resume_payload("reject", action_request)

\* json.loads on the texts considered: an empty object, an object with
\* one member whose value is a digit, a digit; anything else is malformed
Digits == {"0", "1"}

EmptyObject == [kind |-> "object", members |-> <<>>]

ParseJson(text) ==
    IF text = <<"{", "}">> THEN [ok |-> TRUE, value |-> EmptyObject]
    ELSE IF /\ Len(text) = 7
            /\ text[1] = "{" /\ text[2] = "\"" /\ text[4] = "\"" /\ text[5] = ":"
            /\ text[3] \notin {"\"", "\\"}
            /\ text[6] \in Digits /\ text[7] = "}"
    THEN [ok |-> TRUE,
          value |-> [kind |-> "object", members |-> <<<<text[3], text[6]>>>>]]
    ELSE IF Len(text) = 1 /\ text[1] \in Digits
    THEN [ok |-> TRUE, value |-> [kind |-> "number", members |-> <<text>>]]
    ELSE [ok |-> FALSE, value |-> EmptyObject]

\* src/main.py: the payload for what was typed at the prompt and, for an
\* edit, at the prompt for the new arguments
LegacyPayload(typed, new_args_typed, manual_typed, action_request) ==
    LET decision == Lower(Strip(typed))
        new_args == Strip(new_args_typed)
        parsed_args == IF new_args # <<>>
                       THEN IF ParseJson(new_args).ok THEN ParseJson(new_args).value
                            ELSE EmptyObject
                       ELSE EmptyObject
        action_value == IF action_request.shape \in {"dict", "list"}
                        THEN action_request.action ELSE ""
    IN  IF StartsWith(decision, <<"a">>)
        THEN [decisions |-> <<[type |-> "approve"]>>]
        ELSE IF StartsWith(decision, <<"e">>)
        THEN [decisions |-> <<[type |-> "edit",
                               args |-> [action |-> action_value,
                                         args |-> parsed_args]]>>]
        ELSE IF StartsWith(decision, <<"i">>)
        THEN [decisions |-> <<[type |-> "reject"]>>]
        ELSE IF StartsWith(decision, <<"r">>)
        THEN [decisions |-> <<[type |-> "reject", response |-> Strip(manual_typed)]>>]
        ELSE [decisions |-> <<[type |-> "approve"]>>]

NoPrompt ==
    [ entry |-> "", asked |-> FALSE, typed |-> <<>>, new_args |-> <<>>,
      value |-> NoValue, action_request |-> ActionRequest("other", "", "", ""),
      payload |-> [decisions |-> <<>>] ]

NoPayload == [decisions |-> <<>>]

NoDecision == [call |-> 0, thread |-> "", type |-> "", tool |-> ""]

NoState == [some |-> FALSE, next |-> FALSE, interrupts |-> <<>>]

\* builder.py: the tools HumanInTheLoopMiddleware interrupts on
InterruptOnBashOnly == {"bash_tool"}

InterruptOn == {"bash_tool", "powershell_tool"}

AllowedDecisions == {"approve", "reject"}

vars == <<cfg, proc_cwd, vcall, shell_type, thread_id, pc, state_obj, resume_payload,
          rt, policy_hook, session_map, orphans, exec, tool_result, decided, prompt, sess, callers>>

agent_vars == <<shell_type, thread_id, pc, state_obj, resume_payload, rt, policy_hook,
                session_map, orphans, exec, tool_result, decided, prompt, sess, callers>>

NoHook == [ran |-> FALSE, violation |-> FALSE, tool |-> "", cmd |-> <<>>,
           reason |-> "", cwd |-> <<>>, outcome |-> ""]

IdleRt == [node |-> "idle", thread |-> "", call |-> NoToolCall, ncalls |-> 0]

InitAgent ==
    /\ pc = "input"
    /\ state_obj = NoState
    /\ resume_payload = NoPayload
    /\ rt = IdleRt
    /\ policy_hook = NoHook
    /\ session_map = [k \in Kinds |-> "none"]
    /\ orphans = 0
    /\ exec = IdleExec
    /\ tool_result = NoResult
    /\ decided = NoDecision
    /\ prompt = NoPrompt
    /\ sess = NoSession
    /\ callers = NoCallers

(***************************************************************************)
(* The validator applied to every input                                    *)
(***************************************************************************)
\* the process directory is varied where it matters: for a relative cwd
InitV ==
    /\ cfg \in PolicyConfigs
    /\ vcall \in { [ called |-> FALSE, cmd |-> cmd, powershell |-> powershell,
                     cwd |-> cwd, result |-> NoVerdict ] :
                     cmd \in Commands, powershell \in BOOLEAN, cwd \in CwdInputs }
    /\ proc_cwd \in IF IsAbsStr(vcall.cwd) THEN {<<<<"s">>>>} ELSE ProcCwds
    /\ shell_type = "bash"
    /\ thread_id = "t1"
    /\ InitAgent

Validate ==
    /\ ~vcall.called
    /\ vcall' = [ vcall EXCEPT
                    !.called = TRUE,
                    !.result = _validate_command(vcall.cmd, vcall.powershell, vcall.cwd) ]
    /\ UNCHANGED <<cfg, proc_cwd>>
    /\ UNCHANGED agent_vars

NextV == Validate

SpecV == InitV /\ [][NextV]_vars

(***************************************************************************)
(* The decision prompt of both entry points applied to every input         *)
(***************************************************************************)
EntryPoints == {"package", "legacy"}

\* what may be typed at a decision prompt
PromptInputs ==
    DecisionInputs \cup { <<"e">>, <<"E", "d", "i", "t">>, <<"i">>, <<"x">>,
                          <<"a", "p", "p", "r", "o", "v", "e">>,
                          <<"r", "e", "j", "e", "c", "t">> }

\* what may be typed for the edited arguments
NewArgsInputs ==
    { <<>>, <<" ">>, <<"{", "}">>, <<"{", "\"", "k", "\"", ":", "1", "}">>,
      <<"1">>, <<"{">>, <<"n", "o">> }

\* action requests: the name under each key, in a list, missing, not a dict
ActionRequests ==
    { ActionRequest("dict", n, "", "") : n \in ShellTools }
    \cup { ActionRequest("dict", "", n, "") : n \in ShellTools }
    \cup { ActionRequest("dict", "", "", n) : n \in ShellTools }
    \cup { ActionRequest("list", "", n, "") : n \in ShellTools }
    \cup { ActionRequest("dict", "", "", ""), ActionRequest("other", "", "", "") }

\* interrupt values: None, an empty list, a list whose first element
\* carries an action request or lacks the key, a list of two, a single
\* structure (an empty one included)
InterruptValues ==
    { NoValue, ListValue(<<>>), ListValue(<<Item(FALSE, EmptyStructure)>>) }
    \cup { ListValue(<<Item(TRUE, ar)>>) : ar \in ActionRequests }
    \cup { ListValue(<<Item(TRUE, ActionRequest("dict", "", "bash_tool", "")),
                       Item(TRUE, ActionRequest("dict", "", "powershell_tool", ""))>>) }
    \cup { SingleValue(ar) : ar \in { a \in ActionRequests : a.shape # "list" } }

InitD ==
    /\ cfg \in BuiltConfigs
    /\ proc_cwd = <<<<"s">>>>
    /\ vcall = NoCall
    /\ shell_type = "bash"
    /\ thread_id = "t1"
    /\ pc = "decide"
    /\ state_obj = NoState
    /\ resume_payload = NoPayload
    /\ rt = IdleRt
    /\ policy_hook = NoHook
    /\ session_map = [k \in Kinds |-> "none"]
    /\ orphans = 0
    /\ exec = IdleExec
    /\ tool_result = NoResult
    /\ decided = NoDecision
    /\ sess = NoSession
    /\ callers = NoCallers
    /\ prompt \in { [ entry |-> e, asked |-> FALSE, typed |-> t, new_args |-> j,
                       value |-> v, action_request |-> NoPrompt.action_request,
                       payload |-> [decisions |-> <<>>] ] :
                       e \in EntryPoints, t \in PromptInputs, j \in NewArgsInputs,
                       v \in InterruptValues }

\* the pending action is extracted, the decision read and the resume
\* payload built
AskDecision ==
    /\ pc = "decide" /\ ~prompt.asked
    /\ LET action_request == ActionOf(prompt.value)
       IN  prompt' = [ prompt EXCEPT
                         !.asked = TRUE,
                         !.action_request = action_request,
                         !.payload = IF prompt.entry = "package"
                                     THEN PackagePayload(prompt.typed, action_request)
                                     ELSE LegacyPayload(prompt.typed, prompt.new_args, <<>>,
                                                        action_request) ]
    /\ pc' = "resume"
    /\ UNCHANGED <<cfg, proc_cwd, vcall, shell_type, thread_id, state_obj, resume_payload,
                   rt, policy_hook, session_map, orphans, exec, tool_result, decided, sess, callers>>

NextD == AskDecision

SpecD == InitD /\ [][NextD]_vars

(***************************************************************************)
(* One _ShellSession driven by its callers                                 *)
(***************************************************************************)
not_sess == <<cfg, proc_cwd, vcall, shell_type, thread_id, pc, state_obj, resume_payload,
              rt, policy_hook, session_map, orphans, exec, tool_result, decided, prompt,
              callers>>

InitS ==
    /\ cfg \in BuiltConfigs
    /\ proc_cwd = <<<<"s">>>>
    /\ vcall = NoCall
    /\ shell_type = "bash"
    /\ thread_id = "t1"
    /\ pc = "input"
    /\ state_obj = NoState
    /\ resume_payload = NoPayload
    /\ rt = IdleRt
    /\ policy_hook = NoHook
    /\ session_map = [k \in Kinds |-> "none"]
    /\ orphans = 0
    /\ exec = IdleExec
    /\ tool_result = NoResult
    /\ decided = NoDecision
    /\ prompt = NoPrompt
    /\ sess = NewSession
    /\ callers = NoCallers

\* run(command) up to the loop: the stdin test, the write (which raises
\* when the subprocess has exited; the pipe is taken never to fill up),
\* the deadline
RunCalled ==
    /\ sess.pos # "reading" /\ sess.calls < MaxRuns
    /\ LET call == sess.calls + 1
           called == [sess EXCEPT !.calls = call, !.buf = <<>>, !.ret = <<>>,
                                  !.dead_at_call = sess.proc # "running"]
       IN  IF sess.proc = "none" \/ sess.stdin = "none"
           THEN sess' = [called EXCEPT !.pos = "returned", !.ret = ClosedMarker,
                                       !.delivered = @ \o ClosedMarker]
           ELSE \E id \in Sentinels(sess.id, sess.now = sess.called_at) :
                LET stamped == [called EXCEPT !.id = id, !.used = Append(sess.used, id),
                                              !.called_at = sess.now]
                IN  IF sess.proc = "exited"
                    THEN sess' = [stamped EXCEPT !.pos = "raised"]
                    ELSE \E reply \in ShellReplies(id, call) :
                           sess' = [stamped EXCEPT !.pos = "reading",
                                                   !.todo = sess.todo \o reply,
                                                   !.deadline = sess.now + ReadTimeoutPolls]
    /\ UNCHANGED not_sess

\* the shell prints its next line and _pump puts it on the queue
ShellPrints ==
    /\ sess.proc = "running" /\ sess.todo # <<>>
    /\ sess' = [sess EXCEPT !.q = Enqueue(sess.q, Head(sess.todo)),
                            !.emitted = Append(sess.emitted, Head(sess.todo)),
                            !.todo = Tail(sess.todo)]
    /\ UNCHANGED not_sess

\* the subprocess exits by itself; what it had not printed is never printed
ShellExits ==
    /\ sess.proc = "running"
    /\ sess' = [sess EXCEPT !.proc = "exited", !.todo = <<>>]
    /\ UNCHANGED not_sess

\* the poll() test left out: the signal is sent whatever the subprocess is
Signalled(s) ==
    [s EXCEPT !.proc = "exited", !.todo = <<>>, !.signals = @ + 1]

\* the body of terminate(): the signal is sent (signals counts them) if
\* poll() finds the subprocess running; stdin is left as it is
Terminated(s) ==
    IF s.proc = "running"
    THEN [s EXCEPT !.proc = "exited", !.todo = <<>>, !.signals = @ + 1]
    ELSE s

\* terminate() called by the owner of the session
terminate ==
    /\ sess.pos # "reading" /\ sess.terminates < MaxTerminates
    /\ sess' = [Terminated(sess) EXCEPT !.terminated = TRUE, !.terminates = @ + 1]
    /\ UNCHANGED not_sess

\* time passes while run() is in its loop
Tick ==
    /\ sess.pos = "reading" /\ sess.now < sess.deadline
    /\ sess' = [sess EXCEPT !.now = @ + 1]
    /\ UNCHANGED not_sess

\* one pass of the loop of run(): the deadline test, then a line taken from
\* the queue, or queue.Empty after a poll of 0.1 s
ReadStep ==
    /\ sess.pos = "reading"
    /\ IF TimedOut(sess.now, sess.deadline)
       THEN sess' = [sess EXCEPT !.pos = "returned", !.ret = sess.buf,
                                 !.delivered = @ \o sess.buf]
       ELSE IF sess.q # <<>>
       THEN LET line == Head(sess.q)
                buf == Append(sess.buf, line)
            IN  IF EndsLoop(line, sess.id)
                THEN sess' = [sess EXCEPT !.q = Tail(sess.q), !.buf = buf,
                                          !.pos = "returned", !.ret = buf,
                                          !.delivered = @ \o buf]
                ELSE sess' = [sess EXCEPT !.q = Tail(sess.q), !.buf = buf]
       ELSE /\ sess.now < MaxTime
            /\ sess' = [sess EXCEPT !.now = @ + 1]
    /\ UNCHANGED not_sess

NextS ==
    \/ RunCalled
    \/ ShellPrints
    \/ ShellExits
    \/ terminate
    \/ Tick
    \/ ReadStep

SpecS == InitS /\ [][NextS]_vars

\* the thread that called run() keeps running
SpecSF == SpecS /\ WF_vars(ReadStep)

(***************************************************************************)
(* One _ShellSession called from two threads                               *)
(***************************************************************************)
\* run(command) in thread t up to the loop: nothing is taken or waited for
\* before the write
CallerRuns(t) ==
    /\ callers[t].pos # "reading" /\ sess.calls < MaxRuns
    /\ LET call == sess.calls + 1
       IN  IF sess.proc = "none" \/ sess.stdin = "none"
           THEN /\ sess' = [sess EXCEPT !.calls = call]
                /\ callers' = [callers EXCEPT ![t] =
                                  [NoFrame EXCEPT !.pos = "returned", !.call = call,
                                                  !.ret = ClosedMarker]]
           ELSE \E id \in Sentinels(sess.id, sess.now = sess.called_at) :
                LET stamped == [sess EXCEPT !.calls = call, !.id = id,
                                            !.used = Append(sess.used, id),
                                            !.called_at = sess.now]
                    frame == [NoFrame EXCEPT !.id = id, !.call = call]
                IN  IF sess.proc = "exited"
                    THEN /\ sess' = stamped
                         /\ callers' = [callers EXCEPT ![t] = [frame EXCEPT !.pos = "raised"]]
                    ELSE \E reply \in ShellReplies(id, call) :
                           /\ sess' = [stamped EXCEPT !.todo = sess.todo \o reply]
                           /\ callers' = [callers EXCEPT ![t] =
                                             [frame EXCEPT !.pos = "reading",
                                                           !.deadline = sess.now + ReadTimeoutPolls]]
    /\ UNCHANGED <<cfg, proc_cwd, vcall, shell_type, thread_id, pc, state_obj, resume_payload,
                   rt, policy_hook, session_map, orphans, exec, tool_result, decided, prompt>>

\* one pass of the loop of run() in thread t, on the queue of the session
CallerReads(t) ==
    /\ callers[t].pos = "reading"
    /\ LET f == callers[t]
       IN  IF TimedOut(sess.now, f.deadline)
           THEN /\ callers' = [callers EXCEPT ![t] = [f EXCEPT !.pos = "returned", !.ret = f.buf]]
                /\ sess' = sess
           ELSE IF sess.q # <<>>
           THEN LET line == Head(sess.q)
                    buf == Append(f.buf, line)
                IN  /\ sess' = [sess EXCEPT !.q = Tail(sess.q)]
                    /\ callers' = [callers EXCEPT ![t] =
                                      IF EndsLoop(line, f.id)
                                      THEN [f EXCEPT !.buf = buf, !.pos = "returned", !.ret = buf]
                                      ELSE [f EXCEPT !.buf = buf]]
           ELSE /\ sess.now < MaxTime
                /\ sess' = [sess EXCEPT !.now = @ + 1]
                /\ callers' = callers
    /\ UNCHANGED <<cfg, proc_cwd, vcall, shell_type, thread_id, pc, state_obj, resume_payload,
                   rt, policy_hook, session_map, orphans, exec, tool_result, decided, prompt>>

NextC ==
    \/ \E t \in CallerIds : CallerRuns(t)
    \/ \E t \in CallerIds : CallerReads(t)
    \/ ShellPrints
    \/ ShellExits

SpecC == InitS /\ [][NextC]_vars

(***************************************************************************)
(* main.run: the interactive loop and the approval loop                    *)
(***************************************************************************)
Init ==
    /\ cfg \in BuiltConfigs
    /\ proc_cwd \in ProcCwds
    /\ vcall = NoCall
    /\ shell_type \in Kinds
    /\ thread_id \in Threads
    /\ InitAgent

InAgent == pc \in {"invoking", "resuming"}

\* where main.run continues when agent.invoke returns
Returned == IF pc = "invoking" THEN "get_state" ELSE "refresh"

\* a failed resume submitted again
RaisedRetries == IF pc = "invoking" THEN "input" ELSE "resume"

\* where main.run continues when agent.invoke raises
Raised == IF pc = "invoking" THEN "input" ELSE "trace"

\* the value of the interrupt raised for the pending tool call
InterruptValue ==
    ListValue(<<Item(TRUE, ActionRequest("dict", "", rt.call.name, ""))>>)

\* a state query that never reports a suspended task
SnapshotNothingPending == [some |-> TRUE, next |-> FALSE, interrupts |-> <<>>]

\* agent.get_state(config): the suspended task and its interrupts, if any
Snapshot ==
    IF rt.node = "interrupted" /\ rt.thread = thread_id
    THEN [some |-> TRUE, next |-> TRUE, interrupts |-> <<[value |-> InterruptValue]>>]
    ELSE [some |-> TRUE, next |-> FALSE, interrupts |-> <<>>]

\* the user quits, or input ends
UserQuits ==
    /\ pc = "input"
    /\ pc' = "done"
    /\ UNCHANGED <<cfg, proc_cwd, vcall, shell_type, thread_id, state_obj, resume_payload,
                   rt, policy_hook, session_map, orphans, exec, tool_result, decided, prompt, sess, callers>>

\* a prompt is read and agent.invoke is called with it
UserPrompt ==
    /\ pc = "input"
    /\ pc' = "invoking"
    /\ rt' = [node |-> "before_agent", thread |-> thread_id, call |-> NoToolCall,
              ncalls |-> 0]
    /\ vcall' = NoCall
    /\ policy_hook' = NoHook
    /\ exec' = IdleExec
    /\ tool_result' = NoResult
    /\ decided' = NoDecision
    /\ UNCHANGED <<cfg, proc_cwd, shell_type, thread_id, state_obj, resume_payload,
                   session_map, orphans, prompt, sess, callers>>

\* agent.get_state after the invocation; a failure leaves state_obj None
GetState ==
    /\ pc = "get_state"
    /\ state_obj' \in {Snapshot, NoState}
    /\ pc' = "loop"
    /\ UNCHANGED <<cfg, proc_cwd, vcall, shell_type, thread_id, resume_payload, rt,
                   policy_hook, session_map, orphans, exec, tool_result, decided, prompt, sess, callers>>

\* every snapshot that was obtained taken for a suspended run
PendingIfReported(state) == state.some

\* the while condition (a snapshot with next and tasks) and the test of the
\* first task's interrupts; the runtime of this agent suspends in one node
\* only, so a snapshot holds at most one task
HasPendingInterrupt(state) == state.some /\ state.next /\ state.interrupts # <<>>

\* the approval loop is entered, or left for the trace
LoopCheck ==
    /\ pc = "loop"
    /\ pc' = IF HasPendingInterrupt(state_obj) THEN "decide" ELSE "trace"
    /\ UNCHANGED <<cfg, proc_cwd, vcall, shell_type, thread_id, state_obj, resume_payload,
                   rt, policy_hook, session_map, orphans, exec, tool_result, decided, prompt, sess, callers>>

\* the pending action is extracted and shown, the decision read and the
\* resume payload built
Decide(typed) ==
    /\ pc = "decide"
    /\ LET value == state_obj.interrupts[1].value
           action_request == ActionOf(value)
       IN  /\ resume_payload' = PackagePayload(typed, action_request)
           /\ prompt' = [ entry |-> "package", asked |-> TRUE, typed |-> typed,
                           new_args |-> <<>>, value |-> value,
                           action_request |-> action_request,
                           payload |-> PackagePayload(typed, action_request) ]
    /\ pc' = "resume"
    /\ UNCHANGED <<cfg, proc_cwd, vcall, shell_type, thread_id, state_obj, rt,
                   policy_hook, session_map, orphans, exec, tool_result, decided, sess, callers>>

\* agent.invoke(Command(resume=resume_payload), config=config)
Resume ==
    /\ pc = "resume"
    /\ rt.node = "interrupted" /\ rt.thread = thread_id
    /\ pc' = "resuming"
    /\ rt' = [rt EXCEPT !.node = "hitl_resume"]
    /\ decided' = [ call |-> rt.ncalls, thread |-> thread_id,
                    type |-> resume_payload.decisions[1].type,
                    tool |-> resume_payload.decisions[1].tool ]
    /\ prompt' = NoPrompt
    /\ UNCHANGED <<cfg, proc_cwd, vcall, shell_type, thread_id, state_obj, resume_payload,
                   policy_hook, session_map, orphans, exec, tool_result, sess, callers>>

\* agent.get_state after the resume; a failure leaves state_obj None
Refresh ==
    /\ pc = "refresh"
    /\ state_obj' \in {Snapshot, NoState}
    /\ pc' = "loop"
    /\ UNCHANGED <<cfg, proc_cwd, vcall, shell_type, thread_id, resume_payload, rt,
                   policy_hook, session_map, orphans, exec, tool_result, decided, prompt, sess, callers>>

\* the conversation trace is printed; back to the prompt
PrintTrace ==
    /\ pc = "trace"
    /\ pc' = "input"
    /\ state_obj' = NoState
    /\ resume_payload' = NoPayload
    /\ UNCHANGED <<cfg, proc_cwd, vcall, shell_type, thread_id, rt, policy_hook,
                   session_map, orphans, exec, tool_result, decided, prompt, sess, callers>>

(***************************************************************************)
(* The agent built by build_agent, as the runtime drives it                *)
(***************************************************************************)
\* ShellSessionMiddleware.before_agent: a new session for cfg.shell_type
\* replaces the handle of that kind in the resources map
before_agent ==
    /\ InAgent /\ rt.node = "before_agent"
    /\ session_map[shell_type] = "live" => orphans < MaxOrphans
    /\ orphans' = IF session_map[shell_type] = "live" THEN orphans + 1 ELSE orphans
    /\ session_map' = [session_map EXCEPT ![shell_type] = "live"]
    /\ rt' = [rt EXCEPT !.node = "model"]
    /\ UNCHANGED <<cfg, proc_cwd, vcall, shell_type, thread_id, pc, state_obj,
                   resume_payload, policy_hook, exec, tool_result, decided, prompt, sess, callers>>

\* the model answers: a shell tool call, or a final answer
ModelResponds ==
    /\ InAgent /\ rt.node = "model"
    /\ \/ \E tc \in ToolCalls :
            /\ rt.ncalls < MaxToolCalls
            /\ rt' = [rt EXCEPT !.node = "policy", !.call = tc, !.ncalls = @ + 1]
       \/ rt' = [rt EXCEPT !.node = "policy", !.call = NoToolCall]
    /\ tool_result' = NoResult
    /\ exec' = IdleExec
    /\ decided' = NoDecision
    /\ UNCHANGED <<cfg, proc_cwd, vcall, shell_type, thread_id, pc, state_obj,
                   resume_payload, policy_hook, session_map, orphans, prompt, sess, callers>>

\* the commands of the call up to and including the first one refused
RECURSIVE Validated(_, _, _)
Validated(commands, powershell, cwd) ==
    IF commands = <<>> THEN <<>>
    ELSE IF ~_validate_command(Head(commands), powershell, cwd).allowed
         THEN <<Head(commands)>>
         ELSE <<Head(commands)>> \o Validated(Tail(commands), powershell, cwd)

\* ShellPolicyMiddleware.after_model: each command of a shell tool call is
\* validated up to the first violation; in every mode the hook returns None
after_model ==
    /\ InAgent /\ rt.node = "policy"
    /\ LET powershell == rt.call.name = "powershell_tool"
           cwd_raw == IF rt.call.cwd.given THEN rt.call.cwd.val ELSE <<".">>
           cwd == PathStr(Resolve(cwd_raw))
           seen == Validated(rt.call.commands, powershell, cwd)
           last == seen[Len(seen)]
           res == _validate_command(last, powershell, cwd)
       IN  IF rt.call.name \in ShellTools /\ seen # <<>>
           THEN /\ vcall' = [ called |-> TRUE, cmd |-> last, powershell |-> powershell,
                              cwd |-> cwd, result |-> res ]
                /\ policy_hook' =
                     [ ran |-> TRUE, violation |-> ~res.allowed,
                       tool |-> rt.call.name,
                       cmd |-> IF res.allowed THEN <<>> ELSE last,
                       reason |-> res.text,
                       cwd |-> IF res.allowed THEN <<>> ELSE cwd,
                       outcome |-> "returned None" ]
           ELSE /\ vcall' = NoCall
                /\ policy_hook' = [NoHook EXCEPT !.ran = TRUE, !.outcome = "returned None"]
    /\ rt' = [rt EXCEPT !.node = "hitl"]
    /\ UNCHANGED <<cfg, proc_cwd, shell_type, thread_id, pc, state_obj, resume_payload,
                   session_map, orphans, exec, tool_result, decided, prompt, sess, callers>>

\* HumanInTheLoopMiddleware.after_model: a call of a tool listed in
\* interrupt_on suspends the run; a final answer ends the agent loop
HitlAfterModel ==
    /\ InAgent /\ rt.node = "hitl"
    /\ IF rt.call = NoToolCall
       THEN /\ rt' = [rt EXCEPT !.node = "after_agent"]
            /\ pc' = pc
       ELSE IF rt.call.name \in InterruptOn
       THEN /\ rt' = [rt EXCEPT !.node = "interrupted"]
            /\ pc' = Returned
       ELSE /\ rt' = [rt EXCEPT !.node = "tools"]
            /\ pc' = pc
    /\ UNCHANGED <<cfg, proc_cwd, vcall, shell_type, thread_id, state_obj, resume_payload,
                   policy_hook, session_map, orphans, exec, tool_result, decided, prompt, sess, callers>>

\* the resumed interrupt: approve lets the tool call run, reject answers
\* the model in its place; any other decision type is refused with an error
HitlResume ==
    /\ InAgent /\ rt.node = "hitl_resume"
    /\ LET d == resume_payload.decisions[1]
       IN  IF d.type \notin AllowedDecisions
           THEN /\ rt' = [rt EXCEPT !.node = "failed"]
                /\ pc' = Raised
           ELSE /\ rt' = [rt EXCEPT !.node = IF d.type = "approve" THEN "tools" ELSE "model"]
                /\ pc' = pc
    /\ UNCHANGED <<cfg, proc_cwd, vcall, shell_type, thread_id, state_obj, resume_payload,
                   policy_hook, session_map, orphans, exec, tool_result, decided, prompt, sess, callers>>

\* the loop left at the first entry whose terminate raises (the entries
\* are visited in the order bash, powershell)
ReleasedUntilError(map) ==
    IF map["bash"] = "broken" THEN [map EXCEPT !["bash"] = "failed"]
    ELSE [k \in Kinds |-> CASE map[k] = "live" -> "dead"
                            [] map[k] = "broken" -> "failed"
                            [] OTHER -> map[k]]

\* the loop of after_agent over the map: terminate() ends the subprocess of
\* a live session and does nothing to one that is gone; an entry whose
\* terminate raises ("broken") is reported and the loop goes on
Released(map) ==
    [k \in Kinds |-> CASE map[k] = "live" -> "dead"
                      [] map[k] = "broken" -> "failed"
                      [] OTHER -> map[k]]

\* ShellSessionMiddleware.after_agent: every session of the map is terminated
after_agent ==
    /\ InAgent /\ rt.node = "after_agent"
    /\ session_map' = Released(session_map)
    /\ rt' = [rt EXCEPT !.node = "idle"]
    /\ pc' = Returned
    /\ UNCHANGED <<cfg, proc_cwd, vcall, shell_type, thread_id, state_obj, resume_payload,
                   policy_hook, orphans, exec, tool_result, decided, prompt, sess, callers>>

\* the model client or the session start fails: agent.invoke raises
RuntimeFails ==
    /\ InAgent /\ rt.node \in {"before_agent", "model"}
    /\ rt' = [rt EXCEPT !.node = "failed"]
    /\ pc' = Raised
    /\ tool_result' = NoResult
    /\ exec' = IdleExec
    /\ UNCHANGED <<cfg, proc_cwd, vcall, shell_type, thread_id, state_obj, resume_payload,
                   policy_hook, session_map, orphans, decided, prompt, sess, callers>>

\* the shell subprocess of a session exits (seen only by the commands
\* run through it, so it is taken to happen while a batch runs)
SessionExits(k) ==
    /\ InAgent /\ exec.phase = "loop" /\ session_map[k] = "live"
    /\ session_map' = [session_map EXCEPT ![k] = "dead"]
    /\ UNCHANGED <<cfg, proc_cwd, vcall, shell_type, thread_id, pc, state_obj,
                   resume_payload, rt, policy_hook, orphans, exec, tool_result, decided, prompt, sess, callers>>

(***************************************************************************)
(* bash_tool / powershell_tool as the tools node runs them                 *)
(***************************************************************************)
\* the input is validated, the starting directory resolved and clamped,
\* the session of this tool's shell kind looked up
ToolStart ==
    /\ InAgent /\ rt.node = "tools" /\ exec.phase = "idle"
    /\ IF InvalidInput(rt.call.commands)
       THEN /\ tool_result' = InvalidResult
            /\ exec' = exec
            /\ rt' = [rt EXCEPT !.node = "model"]
       ELSE /\ exec' = [ phase |-> "loop", kind |-> ToolKind(rt.call.name),
                         commands |-> rt.call.commands,
                         session |-> HasSession(ToolKind(rt.call.name)),
                         cwd_path |-> StartCwd(rt.call.cwd),
                         results |-> <<>>, i |-> 1, last |-> NoOutcome ]
            /\ UNCHANGED <<tool_result, rt>>
    /\ UNCHANGED <<cfg, proc_cwd, vcall, shell_type, thread_id, pc, state_obj,
                   resume_payload, policy_hook, session_map, orphans, decided, prompt, sess, callers>>

\* the loop body after _run_bash / _run_ps returned res (o: how the
\* execution of the command ended)
AfterCommand(res, o) ==
    LET next_cwd == Clamp(Resolve(res.cwd))
        results == Append(exec.results, res)
    IN  IF halts(res)
        THEN /\ tool_result' = ReturnValue(FALSE, results, next_cwd)
             /\ exec' = [IdleExec EXCEPT !.last = o]
             /\ rt' = [rt EXCEPT !.node = "model"]
        ELSE /\ exec' = [exec EXCEPT !.results = results, !.cwd_path = next_cwd,
                                     !.i = @ + 1, !.last = o]
             /\ UNCHANGED <<tool_result, rt>>

\* the exception leaves the tool function: the tools node does not handle
\* it and agent.invoke raises
ToolRaises(o) ==
    /\ tool_result' = RaisedResult
    /\ exec' = [IdleExec EXCEPT !.last = o]
    /\ rt' = [rt EXCEPT !.node = "failed"]
    /\ pc' = Raised

\* one command through the persistent session: session.run returns what it
\* collected, or raises when the subprocess is gone
RunInSession ==
    /\ InAgent /\ exec.phase = "loop" /\ exec.i <= Len(exec.commands) /\ exec.session
    /\ LET cmd == exec.commands[exec.i]
       IN  IF session_map[exec.kind] = "live"
           THEN \E out \in SessionOutputs(exec.kind) :
                   AfterCommand(SessionSuccess(exec.kind, cmd, exec.cwd_path, out),
                                Outcome("session", 0, out, <<>>, ""))
           ELSE AfterCommand(SessionFailure(exec.kind, cmd, exec.cwd_path),
                             Outcome("session error", 0, <<>>, <<>>, ""))
    /\ UNCHANGED <<cfg, proc_cwd, vcall, shell_type, thread_id, pc, state_obj,
                   resume_payload, policy_hook, session_map, orphans, decided, prompt, sess, callers>>

\* one command in a one-shot process
RunOneShot ==
    /\ InAgent /\ exec.phase = "loop" /\ exec.i <= Len(exec.commands) /\ ~exec.session
    /\ LET cmd == exec.commands[exec.i]
       IN  \E o \in OneShotOutcomes(exec.kind) :
             CASE o.type = "exit" ->
                    /\ AfterCommand(CommandResult(exec.kind, cmd, exec.cwd_path, o.rc,
                                                  o.stdout, o.stderr), o)
                    /\ pc' = pc
               [] o.type = "timeout" /\ ~DecodeRaises(o) ->
                    /\ AfterCommand(CommandResult(exec.kind, cmd, exec.cwd_path, 124,
                                                  Strip(o.stdout),
                                                  Strip(o.stderr \o <<"\n", "[TIMEOUT]">>)), o)
                    /\ pc' = pc
               [] o.type = "timeout" /\ DecodeRaises(o) -> ToolRaises(o)
               [] o.type = "oserror" -> ToolRaises(o)
    /\ UNCHANGED <<cfg, proc_cwd, vcall, shell_type, thread_id, state_obj,
                   resume_payload, policy_hook, session_map, orphans, decided, prompt, sess, callers>>

\* every command ran with returncode 0
ToolReturn ==
    /\ InAgent /\ exec.phase = "loop" /\ exec.i > Len(exec.commands)
    /\ tool_result' = ReturnValue(TRUE, exec.results, exec.cwd_path)
    /\ exec' = IdleExec
    /\ rt' = [rt EXCEPT !.node = "model"]
    /\ UNCHANGED <<cfg, proc_cwd, vcall, shell_type, thread_id, pc, state_obj,
                   resume_payload, policy_hook, session_map, orphans, decided, prompt, sess, callers>>

Next ==
    \/ UserQuits
    \/ UserPrompt
    \/ GetState
    \/ LoopCheck
    \/ \E typed \in DecisionInputs : Decide(typed)
    \/ Resume
    \/ Refresh
    \/ PrintTrace
    \/ before_agent
    \/ ModelResponds
    \/ after_model
    \/ HitlAfterModel
    \/ HitlResume
    \/ after_agent
    \/ RuntimeFails
    \/ \E k \in Kinds : SessionExits(k)
    \/ ToolStart
    \/ RunInSession
    \/ RunOneShot
    \/ ToolReturn

Spec == Init /\ [][Next]_vars

(***************************************************************************)
(* after_agent applied to every resources map the runtime may hand it      *)
(***************************************************************************)
\* an entry of state["resources"]["shell_session"]: absent, a session whose
\* subprocess runs, one whose subprocess is gone, an object whose
\* terminate raises
MapEntries == {"none", "live", "dead", "broken"}

InitA ==
    /\ cfg \in BuiltConfigs
    /\ proc_cwd = <<<<"s">>>>
    /\ vcall = NoCall
    /\ shell_type \in Kinds
    /\ thread_id \in Threads
    /\ pc \in {"invoking", "resuming"}
    /\ state_obj = NoState
    /\ resume_payload = NoPayload
    /\ rt = [IdleRt EXCEPT !.node = "after_agent", !.thread = thread_id]
    /\ policy_hook = NoHook
    /\ session_map \in [Kinds -> MapEntries]
    /\ orphans \in 0..MaxOrphans
    /\ exec = IdleExec
    /\ tool_result = NoResult
    /\ decided = NoDecision
    /\ prompt = NoPrompt
    /\ sess = NoSession
    /\ callers = NoCallers

NextA == after_agent

SpecA == InitA /\ [][NextA]_vars

(***************************************************************************)
(* The marker parsing of _run_bash / _run_ps applied to captured outputs   *)
(***************************************************************************)
\* lines of a captured output
MaxLines == 3

\* the lines a captured output is made of: the marker, text, a blank
\* line, text after blanks, a directory, a directory between blanks
CapturedLines(kind) ==
    { _MARKER(kind), Hi, <<" ">>, <<" ", "h">>, <<"/", "s", "/", "u">>,
      <<" ", "/", "s", "/", "u", " ">> }

\* captured outputs: every line ended by a line break, or the last not
CapturedTexts(kind) ==
    UNION { { Printed(ls), JoinLines(ls) } :
              ls \in UNION { [1..n -> CapturedLines(kind)] : n \in 0..MaxLines } }

\* a batch of one command about to be parsed: exec.last holds what was
\* captured of the command
InitP ==
    /\ cfg \in BuiltConfigs
    /\ proc_cwd = <<<<"s">>>>
    /\ vcall = NoCall
    /\ shell_type = "bash"
    /\ thread_id = "t1"
    /\ pc = "invoking"
    /\ state_obj = NoState
    /\ resume_payload = NoPayload
    /\ rt = [IdleRt EXCEPT !.node = "tools"]
    /\ policy_hook = NoHook
    /\ session_map = [k \in Kinds |-> "none"]
    /\ orphans = 0
    /\ \E kind \in Kinds, c \in CallCwds : \E text \in CapturedTexts(kind) :
          exec = [ phase |-> "loop", kind |-> kind, commands |-> <<CmdLs>>,
                   session |-> FALSE, cwd_path |-> StartCwd(c), results |-> <<>>,
                   i |-> 1, last |-> Outcome("captured", 0, text, <<>>, "") ]
    /\ tool_result = NoResult
    /\ decided = NoDecision
    /\ prompt = NoPrompt
    /\ sess = NoSession
    /\ callers = NoCallers

\* the marker is looked for in what was captured and the loop body run
ParseOutput ==
    /\ exec.phase = "loop" /\ exec.last.type = "captured"
    /\ AfterCommand(CommandResult(exec.kind, exec.commands[exec.i], exec.cwd_path,
                                  exec.last.rc, exec.last.stdout, exec.last.stderr),
                    [exec.last EXCEPT !.type = "exit"])
    /\ UNCHANGED <<cfg, proc_cwd, vcall, shell_type, thread_id, pc, state_obj,
                   resume_payload, policy_hook, session_map, orphans, decided, prompt,
                   sess, callers>>

NextP == ParseOutput

SpecP == InitP /\ [][NextP]_vars

(***************************************************************************)
(* Vocabulary of the properties                                            *)
(***************************************************************************)
NonBlank(cmd) == \E i \in 1..Len(cmd) : cmd[i] # " "

\* the first whitespace-delimited token of a non-blank cmd
VerbOf(cmd) ==
    LET i == CHOOSE i \in 1..Len(cmd) :
                 cmd[i] # " " /\ \A k \in 1..(i - 1) : cmd[k] = " "
        j == CHOOSE j \in i..Len(cmd) :
                 /\ \A k \in i..j : cmd[k] # " "
                 /\ j = Len(cmd) \/ cmd[j + 1] = " "
    IN  SubSeq(cmd, i, j)

DiffersOnlyInCase(a, b) == a # b /\ Lower(a) = Lower(b)

\* the verb matches an entry of the list: whatever the case for PowerShell,
\* in the exact case for Bash
Matches(verb, list, powershell) ==
    \E e \in list : e = verb \/ (powershell /\ DiffersOnlyInCase(verb, e))

DenyList(powershell) == IF powershell THEN cfg.dangerous_pwsh ELSE cfg.dangerous_bash

AllowList(powershell) == IF powershell THEN cfg.allowed_pwsh ELSE cfg.allowed_bash

NotAllowedText(powershell) ==
    IF powershell THEN "not in allowed PowerShell commands"
    ELSE "not in allowed Bash commands"

\* the resolved directory is the sandbox root or lies below it
UnderRoot(parts) ==
    \E k \in 0..Len(parts) : SubSeq(parts, 1, k) = Resolve(cfg.root_dir)

\* the command passed the empty and the length test
Judged(c) == c.called /\ NonBlank(c.cmd) /\ Len(c.cmd) <= cfg.max_command_len

Denied(c) == Matches(VerbOf(c.cmd), DenyList(c.powershell), c.powershell)

Listed(c) == Matches(VerbOf(c.cmd), AllowList(c.powershell), c.powershell)

Escapes(c) == cfg.enforce_root_jail /\ ~UnderRoot(Resolve(c.cwd))

(***************************************************************************)
(* C3: a non-empty command within the length limit whose verb is in the    *)
(* deny-list of its shell kind is refused with the reason "Dangerous       *)
(* command", also when the same verb is in the allow-list.                 *)
(***************************************************************************)
C3_DeniedVerbRefused ==
    (Judged(vcall) /\ Denied(vcall))
        => (~vcall.result.allowed /\ vcall.result.text = "Dangerous command")

C3_Witness ==
    /\ Judged(vcall) /\ Denied(vcall) /\ Listed(vcall)
    /\ ~vcall.result.allowed /\ vcall.result.text = "Dangerous command"

(***************************************************************************)
(* C4 as stated: every command whose verb is absent from the allow-list    *)
(* is refused with a reason mentioning "not in allowed".                   *)
(***************************************************************************)
C4_Original ==
    (vcall.called /\ NonBlank(vcall.cmd) /\ ~Listed(vcall))
        => (~vcall.result.allowed
            /\ vcall.result.text = NotAllowedText(vcall.powershell))

(***************************************************************************)
(* C4 amended: a command is allowed only if its verb is in the allow-list; *)
(* a command whose verb is absent from the allow-list is always refused,   *)
(* and the reason mentions "not in allowed" when the command is non-empty, *)
(* within the length limit and its verb is not in the deny-list.           *)
(***************************************************************************)
C4_UnlistedVerbRefused ==
    /\ (vcall.called /\ vcall.result.allowed)
            => (NonBlank(vcall.cmd) /\ Listed(vcall))
    /\ (Judged(vcall) /\ ~Listed(vcall) /\ ~Denied(vcall))
            => (~vcall.result.allowed
                /\ vcall.result.text = NotAllowedText(vcall.powershell))

C4_Witness ==
    /\ Judged(vcall) /\ ~Listed(vcall) /\ ~Denied(vcall) /\ ~Escapes(vcall)
    /\ vcall.result.text = NotAllowedText(vcall.powershell)

(***************************************************************************)
(* C5: with jailing enabled a working directory that resolves to neither   *)
(* the sandbox root nor a descendant of it (a sibling such as /s2 for root *)
(* /s included) is refused; the root and every directory under it pass     *)
(* the containment check; with jailing disabled the check always passes.   *)
(***************************************************************************)
C5_SandboxContainment ==
    /\ (vcall.called /\ Escapes(vcall)) => ~vcall.result.allowed
    /\ (Judged(vcall) /\ ~Denied(vcall) /\ Listed(vcall) /\ Escapes(vcall))
            => vcall.result.text = "outside sandbox"
    /\ (vcall.called /\ (~cfg.enforce_root_jail \/ UnderRoot(Resolve(vcall.cwd))))
            => vcall.result.text # "outside sandbox"
    /\ (Judged(vcall) /\ ~Denied(vcall) /\ Listed(vcall) /\ ~Escapes(vcall))
            => vcall.result.allowed

C5_Witness ==
    /\ Judged(vcall) /\ ~Denied(vcall) /\ Listed(vcall)
    /\ cfg.enforce_root_jail
    /\ Resolve(vcall.cwd) = <<<<"s", "2">>>>
    /\ ~vcall.result.allowed /\ vcall.result.text = "outside sandbox"

(***************************************************************************)
(* C6: a PowerShell verb that differs from a deny-list or allow-list entry *)
(* only in letter case matches the entry; a Bash verb that differs from an *)
(* entry only in case does not match it.                                   *)
(***************************************************************************)
C6_CaseOfVerbMatching ==
    LET verb == VerbOf(vcall.cmd)
        ps == vcall.powershell
    IN  Judged(vcall) =>
          /\ (ps /\ \E d \in cfg.dangerous_pwsh : DiffersOnlyInCase(verb, d))
                => vcall.result.text = "Dangerous command"
          /\ (ps /\ ~Denied(vcall)
                 /\ \E a \in cfg.allowed_pwsh : DiffersOnlyInCase(verb, a))
                => vcall.result.text # NotAllowedText(TRUE)
          /\ (~ps /\ verb \notin cfg.dangerous_bash)
                => vcall.result.text # "Dangerous command"
          /\ (~ps /\ verb \notin cfg.dangerous_bash /\ verb \notin cfg.allowed_bash)
                => vcall.result.text = NotAllowedText(FALSE)

C6_Witness ==
    /\ Judged(vcall) /\ vcall.powershell
    /\ VerbOf(vcall.cmd) \notin cfg.dangerous_pwsh
    /\ \E d \in cfg.dangerous_pwsh : DiffersOnlyInCase(VerbOf(vcall.cmd), d)
    /\ vcall.result.text = "Dangerous command"

(***************************************************************************)
(* C7: the checks apply in the order empty, longer than max_command_len    *)
(* (exactly max_command_len passes), deny-list, allow-list, sandbox; the   *)
(* reason is that of the first check that fails and the command is allowed *)
(* only when all pass.                                                     *)
(***************************************************************************)
FirstFailure(c) ==
    IF ~NonBlank(c.cmd) THEN "Empty command."
    ELSE IF Len(c.cmd) > cfg.max_command_len THEN "Command too long"
    ELSE IF Denied(c) THEN "Dangerous command"
    ELSE IF ~Listed(c) THEN NotAllowedText(c.powershell)
    ELSE IF Escapes(c) THEN "outside sandbox"
    ELSE ""

C7_ChecksInOrder ==
    vcall.called =>
        /\ vcall.result.text = FirstFailure(vcall)
        /\ vcall.result.allowed <=> FirstFailure(vcall) = ""
        /\ Len(vcall.cmd) = cfg.max_command_len
                => vcall.result.text # "Command too long"

C7_Witness ==
    /\ vcall.called /\ NonBlank(vcall.cmd)
    /\ Len(vcall.cmd) > cfg.max_command_len
    /\ Denied(vcall) /\ Escapes(vcall)
    /\ vcall.result.text = "Command too long"

(***************************************************************************)
(* Vocabulary of the agent-run properties                                  *)
(***************************************************************************)
\* the call the runtime holds is a PowerShell call
CallIsPwsh == rt.call.name = "powershell_tool"

\* the results of the commands started for the current call so far
Started == IF exec.phase = "loop" THEN exec.results ELSE tool_result.results

\* the function body of the current tool call has been entered
Executing == rt.node = "tools" \/ exec.phase = "loop" \/ tool_result.status # "none"

DeniedCmd(cmd) == NonBlank(cmd) /\ Matches(VerbOf(cmd), DenyList(CallIsPwsh), CallIsPwsh)

(***************************************************************************)
(* C1 as stated: no subprocess or session command is ever started for a    *)
(* command whose verb is in the deny-list of its shell kind, whatever the  *)
(* human decides at the approval prompt.                                   *)
(***************************************************************************)
C1_DeniedCommandNeverStarted ==
    \A i \in 1..Len(Started) : ~DeniedCmd(Started[i].cmd)

(***************************************************************************)
(* C2: while a bash_tool or powershell_tool call executes, and once it has *)
(* returned, the decision last submitted is an approve for that very call  *)
(* and tool on the thread of the run; a call whose decision is reject is   *)
(* never executed.                                                         *)
(***************************************************************************)
C2_ApprovedBeforeExecution ==
    /\ Executing =>
            /\ decided.type = "approve"
            /\ decided.call = rt.ncalls
            /\ decided.tool = rt.call.name
            /\ decided.thread = rt.thread
    /\ decided.type = "reject" => ~Executing

C2_Witness ==
    /\ exec.phase = "loop" /\ exec.results # <<>>
    /\ rt.call.name = "powershell_tool"
    /\ decided.type = "approve" /\ decided.call = rt.ncalls

(***************************************************************************)
(* C8 as stated: in mode auto_block, when a command of a shell tool call   *)
(* fails validation the after_model hook raises ShellPolicyViolation and   *)
(* the agent does not go on towards tool execution.                        *)
(***************************************************************************)
C8_AutoBlockRaises ==
    (policy_hook.ran /\ policy_hook.violation /\ cfg.enforce_mode = "auto_block")
        => /\ policy_hook.outcome = "raised"
           /\ rt.node \notin {"hitl", "interrupted", "hitl_resume", "tools"}

(***************************************************************************)
(* C9: a batch halts at the first command that fails, for both strategies  *)
(* and both shell kinds: while the loop runs every result so far has       *)
(* returncode 0 and belongs to the command at its position; the returned   *)
(* results are the commands up to and including the first failing one, in  *)
(* order, with success false, and the loop is over.                        *)
(***************************************************************************)
C9_BatchHaltsAtFirstFailure ==
    /\ exec.phase = "loop" =>
            /\ Len(exec.results) = exec.i - 1
            /\ \A j \in 1..Len(exec.results) :
                    /\ exec.results[j].returncode = 0
                    /\ exec.results[j].cmd = rt.call.commands[j]
    /\ tool_result.status = "returned" =>
            LET rs == tool_result.results
                n == Len(rs)
            IN  /\ n \in 1..Len(rt.call.commands)
                /\ \A j \in 1..n : rs[j].cmd = rt.call.commands[j]
                /\ \A j \in 1..(n - 1) : rs[j].returncode = 0
                /\ n < Len(rt.call.commands) => rs[n].returncode # 0
                /\ rs[n].returncode # 0 => ~tool_result.success
                /\ exec.phase = "idle"

C9_Witness ==
    /\ tool_result.status = "returned" /\ ~tool_result.success
    /\ rt.call.name = "powershell_tool"
    /\ Len(rt.call.commands) = 3 /\ Len(tool_result.results) = 2
    /\ tool_result.results[1].returncode = 0
    /\ tool_result.results[2].stderr = <<"[SESSION ERROR]">>

(***************************************************************************)
(* C10: the returned success is true exactly when every command of the     *)
(* batch was run and every result has returncode 0; then results has one   *)
(* entry per input command in input order and the returned cwd is the      *)
(* working directory after the last command.                               *)
(***************************************************************************)
C10_SuccessIffAllRanClean ==
    tool_result.status = "returned" =>
        LET rs == tool_result.results
            n == Len(rs)
        IN  /\ tool_result.success <=>
                    /\ n = Len(rt.call.commands)
                    /\ \A j \in 1..n : rs[j].returncode = 0
            /\ tool_result.success =>
                    /\ \A j \in 1..n : rs[j].cmd = rt.call.commands[j]
                    /\ tool_result.cwd = PathStr(Clamp(Resolve(rs[n].cwd)))

C10_Witness ==
    /\ tool_result.status = "returned" /\ tool_result.success
    /\ Len(tool_result.results) = 3
    /\ tool_result.results[3].cwd = <<"/", "s", "/", "u">>
    /\ tool_result.cwd = <<"/", "s", "/", "u">>

(***************************************************************************)
(* C11: with jailing enabled the working directory carried into the next   *)
(* command and the cwd returned (on success or failure) is the sandbox     *)
(* root or a descendant of it; a directory parsed from a command's output  *)
(* that resolves outside the root is replaced by the root itself, and the  *)
(* batch goes on rather than being rejected.                               *)
(***************************************************************************)
C11_CwdStaysInSandbox ==
    cfg.enforce_root_jail =>
        /\ exec.phase = "loop" =>
                /\ UnderRoot(exec.cwd_path)
                /\ \A j \in 1..Len(exec.results) :
                        ~UnderRoot(Resolve(exec.results[j].cwd)) =>
                            /\ exec.results[j].returncode = 0
                            /\ j = Len(exec.results) =>
                                    exec.cwd_path = Resolve(cfg.root_dir)
        /\ tool_result.status = "returned" =>
                LET rs == tool_result.results
                IN  /\ UnderRoot(Resolve(tool_result.cwd))
                    /\ ~UnderRoot(Resolve(rs[Len(rs)].cwd)) =>
                            tool_result.cwd = PathStr(Resolve(cfg.root_dir))
                    /\ UnderRoot(Resolve(rs[Len(rs)].cwd)) =>
                            tool_result.cwd = PathStr(Resolve(rs[Len(rs)].cwd))

C11_Witness ==
    /\ cfg.enforce_root_jail
    /\ exec.phase = "loop" /\ Len(exec.results) = 2 /\ exec.i = 3
    /\ Resolve(exec.results[1].cwd) = <<<<"s">>, <<"u">>>>
    /\ Resolve(exec.results[2].cwd) = <<<<"s", "2">>>>
    /\ exec.cwd_path = <<<<"s">>>>

(***************************************************************************)
(* C12: before the first command runs the working directory of the batch   *)
(* is the caller-supplied directory if one is given, else the sandbox      *)
(* root; with jailing enabled a supplied directory that resolves outside   *)
(* the root is replaced by the root, and one inside the root is used as    *)
(* it resolves.                                                            *)
(***************************************************************************)
C12_StartingCwd ==
    (exec.phase = "loop" /\ exec.i = 1) =>
        LET supplied == rt.call.cwd.given /\ rt.call.cwd.val # <<>>
            dir == Resolve(rt.call.cwd.val)
        IN  /\ ~supplied => exec.cwd_path = Resolve(cfg.root_dir)
            /\ (supplied /\ UnderRoot(dir)) => exec.cwd_path = dir
            /\ (supplied /\ ~cfg.enforce_root_jail) => exec.cwd_path = dir
            /\ (supplied /\ cfg.enforce_root_jail /\ ~UnderRoot(dir))
                    => exec.cwd_path = Resolve(cfg.root_dir)

C12_Witness ==
    /\ exec.phase = "loop" /\ exec.i = 1
    /\ cfg.enforce_root_jail
    /\ rt.call.cwd = Given(<<"/", "e">>)
    /\ exec.cwd_path = <<<<"s">>>>

(***************************************************************************)
(* Vocabulary of the decision-prompt properties                            *)
(***************************************************************************)
ApproveWord == <<"a", "p", "p", "r", "o", "v", "e">>

RejectWord == <<"r", "e", "j", "e", "c", "t">>

\* what was typed, trimmed and lowered
Answer == Lower(Strip(prompt.typed))

\* the answer is the word or a non-empty abbreviation of it
Chose(word) == Answer # <<>> /\ StartsWith(word, Answer)

\* the initials of the decisions the prompt of the entry point offers
OfferedInitials ==
    IF prompt.entry = "package" THEN {"a", "r"} ELSE {"a", "e", "i", "r"}

\* the answer starts like one of the offered decisions
Recognized == Answer # <<>> /\ Answer[1] \in OfferedInitials

\* the text typed for the edited arguments is not structured data
Malformed == Strip(prompt.new_args) # <<>> /\ ~ParseJson(Strip(prompt.new_args)).ok

(***************************************************************************)
(* C13 as stated: a decision input that is not recognized as one of the    *)
(* offered decisions resolves to a resume payload of type reject and never *)
(* to approve.                                                             *)
(***************************************************************************)
C13_UnrecognizedRejects ==
    (prompt.asked /\ ~Recognized) =>
        /\ Len(prompt.payload.decisions) = 1
        /\ prompt.payload.decisions[1].type = "reject"

(***************************************************************************)
(* C14: for a suspended shell tool action the payload built by             *)
(* terminal_agent/main.py holds exactly one decision, whose type is the    *)
(* decision chosen (approve or reject) and whose tool is the tool name of  *)
(* the pending action, and the runtime is resumed with that decision.      *)
(***************************************************************************)
C14_ResumePayloadShape ==
    /\ (pc = "resume" /\ prompt.asked) =>
            /\ prompt.payload = resume_payload
            /\ Len(resume_payload.decisions) = 1
            /\ resume_payload.decisions[1].tool = rt.call.name
            /\ rt.call.name \in ShellTools
            /\ Chose(ApproveWord) =>
                    resume_payload =
                        [decisions |-> <<[type |-> "approve", tool |-> rt.call.name]>>]
            /\ Chose(RejectWord) =>
                    resume_payload =
                        [decisions |-> <<[type |-> "reject", tool |-> rt.call.name]>>]
    /\ rt.node = "hitl_resume" =>
            resume_payload =
                [decisions |-> <<[type |-> decided.type, tool |-> rt.call.name]>>]

C14_Witness ==
    /\ pc = "resume" /\ prompt.asked /\ rt.node = "interrupted"
    /\ prompt.typed = <<"r">>
    /\ resume_payload = [decisions |-> <<[type |-> "reject", tool |-> "bash_tool"]>>]

(***************************************************************************)
(* C17 as stated: when the human chooses edit and the replacement          *)
(* arguments cannot be parsed as structured data, the payload built holds  *)
(* a decision of type edit whose replacement arguments are empty.          *)
(***************************************************************************)
C17_MalformedEditIsEmptyEdit ==
    (prompt.asked /\ Answer # <<>> /\ Answer[1] = "e" /\ Malformed) =>
        /\ Len(prompt.payload.decisions) = 1
        /\ prompt.payload.decisions[1].type = "edit"
        /\ prompt.payload.decisions[1].args.args = EmptyObject

(***************************************************************************)
(* C15: after every resume that returns the coordinator queries the        *)
(* runtime state again; while the state reports a suspended task with a    *)
(* pending interrupt it prompts and resumes; unless a query or the runtime *)
(* failed, it reaches the final trace only when the runtime holds no       *)
(* suspended task.                                                         *)
(***************************************************************************)
C15_TraceOnlyWhenNothingPending ==
    (pc = "trace" /\ state_obj.some /\ rt.node # "failed") => rt.node # "interrupted"

C15_LoopStep ==
    /\ (pc = "resuming" /\ pc' # pc) =>
            (pc' = "refresh" \/ (pc' = "trace" /\ rt'.node = "failed"))
    /\ (pc = "refresh" /\ pc' # pc) =>
            /\ pc' = "loop"
            /\ state_obj'.some => (state_obj'.next <=> rt.node = "interrupted")
    /\ (pc = "loop" /\ pc' # pc) =>
            IF state_obj.some /\ state_obj.next /\ state_obj.interrupts # <<>>
            THEN pc' = "decide" ELSE pc' = "trace"
    /\ (pc = "decide" /\ pc' # pc) => pc' = "resume"
    /\ (pc = "resume" /\ pc' # pc) => pc' = "resuming"

\* C15: both parts, in every state and at every step
C15_RequeriesUntilNoSuspension ==
    [](C15_TraceOnlyWhenNothingPending) /\ [][C15_LoopStep]_vars

C15_Witness ==
    /\ pc = "trace" /\ rt.ncalls = 2 /\ rt.node = "idle"
    /\ state_obj.some /\ ~state_obj.next
    /\ resume_payload.decisions # <<>>

(***************************************************************************)
(* C16: every resume call submits a decision freshly built at the prompt,  *)
(* and a decision is submitted by one resume call only; when the resume    *)
(* call raises or the state query after it fails, the approval loop is     *)
(* left for the trace and the next user input: no retry, no further        *)
(* prompt, no further resume call in that turn.                            *)
(***************************************************************************)
C16_Step ==
    /\ (pc' = "resume" /\ pc # "resume") =>
            /\ pc = "decide"
            /\ prompt'.asked /\ resume_payload' = prompt'.payload
    /\ (pc = "resume" /\ pc' # pc) =>
            /\ pc' = "resuming" /\ rt'.node = "hitl_resume"
            /\ decided'.type = resume_payload.decisions[1].type
            /\ decided'.call = rt.ncalls
            /\ ~prompt'.asked
    /\ (pc' = "resuming" /\ pc # "resuming") => pc = "resume"
    /\ (pc = "resuming" /\ rt'.node = "failed") => pc' = "trace"
    /\ (pc = "refresh" /\ pc' # pc /\ ~state_obj'.some) => pc' = "loop"
    /\ (pc = "loop" /\ pc' # pc /\ ~state_obj.some) => pc' = "trace"
    /\ (pc = "trace" /\ pc' # pc) => pc' = "input"

C18_ReturnsWhatItCollected ==
    (sess.pos = "returned" /\ sess.ret # ClosedMarker) =>
        LET n == Len(sess.ret)
        IN  /\ sess.ret = sess.buf
            /\ \A j \in 1..(n - 1) : sess.ret[j].end # sess.id
            /\ \/ n > 0 /\ sess.ret[n].end = sess.id
               \/ ~(sess.now < sess.deadline)

C18_ReadingEnds == (sess.pos = "reading") ~> (sess.pos = "returned")

\* C18: what is returned, and that the call returns
C18_RunTerminates == [](C18_ReturnsWhatItCollected) /\ C18_ReadingEnds

C18_Witness ==
    /\ sess.pos = "returned" /\ sess.proc = "running"
    /\ sess.todo # <<>> /\ sess.q = <<>>
    /\ \A j \in 1..Len(sess.ret) : sess.ret[j].end # sess.id
    /\ sess.now = sess.deadline

(***************************************************************************)
(* C19 as stated: when run(command) is called after terminate() or after   *)
(* the subprocess has exited, it returns a string saying that the session  *)
(* is closed and does not raise.                                           *)
(***************************************************************************)
C19_ClosedSessionReturnsMarker ==
    (sess.calls > 0 /\ sess.dead_at_call /\ sess.terminated) =>
        (sess.pos = "returned" /\ sess.ret = ClosedMarker)

(***************************************************************************)
(* C20: on the persistent-session path a command whose session.run fails   *)
(* (the subprocess is gone, the pipe closed) yields a result with exit     *)
(* code 1 and a stderr text that says so, and the batch halts at that      *)
(* command as for a command that failed: the call returns failure with     *)
(* this result last.                                                       *)
(***************************************************************************)
C20_Step ==
    (/\ exec.phase = "loop" /\ exec.session /\ exec.i <= Len(exec.commands)
     /\ session_map[exec.kind] # "live"
     /\ exec' # exec) =>
        LET rs == tool_result'.results
            n == Len(rs)
        IN  /\ tool_result'.status = "returned" /\ ~tool_result'.success
            /\ exec'.phase = "idle"
            /\ n = exec.i
            /\ rs[n].cmd = exec.commands[exec.i]
            /\ rs[n].returncode = 1
            /\ StartsWith(rs[n].stderr, <<"[SESSION ERROR]">>)
            /\ \A j \in 1..(n - 1) : rs[j] = exec.results[j]

C20_SessionErrorIsLast ==
    \A j \in 1..Len(Started) :
        StartsWith(Started[j].stderr, <<"[SESSION ERROR]">>) =>
            /\ Started[j].returncode = 1
            /\ j = Len(Started)
            /\ exec.phase = "idle" /\ ~tool_result.success

\* C20: at the failing step and in what is returned
C20_SessionFailureHalts == [](C20_SessionErrorIsLast) /\ [][C20_Step]_vars

C20_Witness ==
    /\ tool_result.status = "returned" /\ ~tool_result.success
    /\ rt.call.name = "bash_tool" /\ Len(rt.call.commands) = 2
    /\ Len(tool_result.results) = 1
    /\ tool_result.results[1].returncode = 1
    /\ tool_result.results[1].stderr = <<"[SESSION ERROR]">>

(***************************************************************************)
(* Vocabulary of the command-failure properties                            *)
(***************************************************************************)
\* the result of the command that ran last
LastResult == tool_result.results[Len(tool_result.results)]

\* the batch ended at the command that ran last with a failure result
HaltedAtLast ==
    /\ tool_result.status = "returned" /\ ~tool_result.success
    /\ tool_result.results # <<>>
    /\ Len(tool_result.results) <= Len(rt.call.commands)
    /\ LastResult.cmd = rt.call.commands[Len(tool_result.results)]

(***************************************************************************)
(* C21 as stated: on the one-shot path a command that runs into the        *)
(* process timeout gives a result with returncode 124, the output captured *)
(* so far as stdout and a stderr that ends with [TIMEOUT]; the tool does   *)
(* not raise and the batch ends at that command.                           *)
(***************************************************************************)
C21_TimeoutIsReported ==
    exec.last.type = "timeout" =>
        /\ HaltedAtLast
        /\ LastResult.returncode = 124
        /\ LastResult.stdout = Strip(exec.last.stdout)
        /\ LastResult.stderr # <<>>
        /\ LastResult.stderr[Len(LastResult.stderr)] = "[TIMEOUT]"

(***************************************************************************)
(* C29 as stated: for an accepted tool invocation every failure of the     *)
(* execution of a command (a process that cannot be started, a timeout, a  *)
(* session error) becomes the result of that command in the returned batch *)
(* result, and bash_tool / powershell_tool never raise.                    *)
(***************************************************************************)
C29_NoFailureIsFatal ==
    /\ tool_result.status # "raised"
    /\ exec.last.type \in {"oserror", "timeout", "session error"} =>
            (HaltedAtLast /\ LastResult.returncode # 0)

\* no command of the list has a character other than white space
AllBlank(commands) == \A i \in 1..Len(commands) : ~NonBlank(commands[i])

(***************************************************************************)
(* C28: a tool invocation whose commands list is empty or holds blank      *)
(* strings only is rejected with a validation error before any command is  *)
(* wrapped or executed; an invocation with at least one non-blank command  *)
(* is accepted and its commands are run.                                   *)
(***************************************************************************)
C28_BlankBatchRejected ==
    /\ tool_result.status = "invalid" =>
            (AllBlank(rt.call.commands) /\ exec = IdleExec)
    /\ (exec.phase = "loop" \/ exec.last # NoOutcome
          \/ tool_result.status \in {"returned", "raised"}) =>
            ~AllBlank(rt.call.commands)

C28_Witness ==
    /\ tool_result.status = "invalid" /\ rt.call.commands = <<CmdBlank>>
    /\ decided.type = "approve"

(***************************************************************************)
(* C30: the validator is a pure function of (command, shell kind, cwd,     *)
(* configuration): a call of _validate_command leaves the policy           *)
(* configuration and the state of the middlewares as they are, a call on   *)
(* the inputs of the call before it gives the verdict of that call, and no *)
(* step of the validator, the after_model hook or the shell tools changes  *)
(* the policy configuration.                                               *)
(***************************************************************************)
C30_Step ==
    /\ cfg' = cfg
    /\ (vcall'.called /\ vcall' # vcall) =>
            UNCHANGED <<proc_cwd, shell_type, session_map, orphans, exec, tool_result>>
    /\ ( /\ vcall.called /\ vcall'.called
         /\ vcall'.cmd = vcall.cmd
         /\ vcall'.powershell = vcall.powershell
         /\ vcall'.cwd = vcall.cwd ) => vcall'.result = vcall.result

LiveSessions(k) ==
    (IF session_map[k] = "live" THEN 1 ELSE 0) + (IF k = shell_type THEN orphans ELSE 0)

(***************************************************************************)
(* C25 as stated: across the before_agent and after_agent calls of a run   *)
(* at most one live session exists per shell kind, and before_agent never  *)
(* leaves an earlier session of the same kind alive and unreferenced when  *)
(* it attaches a new one.                                                  *)
(***************************************************************************)
C25_AtMostOneLiveSession ==
    /\ \A k \in Kinds : LiveSessions(k) <= 1
    /\ orphans = 0

(***************************************************************************)
(* C26: at agent teardown every session held in the resources map is       *)
(* released: after_agent calls terminate on each entry of every shell      *)
(* kind, an error while terminating one entry does not keep the others     *)
(* from being terminated, sessions the map does not hold are left as they  *)
(* are, and after_agent returns without raising.                           *)
(***************************************************************************)
C26_Step ==
    (rt.node = "after_agent" /\ rt'.node # "after_agent") =>
        /\ \A k \in Kinds :
              /\ session_map[k] = "live" => session_map'[k] = "dead"
              /\ session_map[k] = "broken" => session_map'[k] = "failed"
              /\ session_map[k] \in {"none", "dead"} => session_map'[k] = session_map[k]
        /\ orphans' = orphans
        /\ rt'.node = "idle"
        /\ pc' = IF pc = "invoking" THEN "get_state" ELSE "refresh"

C26_TeardownReleasesAll == [][C26_Step]_vars

C26_Witness ==
    /\ rt.node = "idle" /\ pc \in {"get_state", "refresh"}
    /\ session_map = [k \in Kinds |-> IF k = "bash" THEN "failed" ELSE "dead"]

(***************************************************************************)
(* C22 as stated: when a run() call gave up at its deadline before its     *)
(* sentinel appeared, the lines its command prints afterwards are read and *)
(* dropped by the next run() call: what a call returns holds no line       *)
(* printed for an earlier call, a stale sentinel line apart.               *)
(***************************************************************************)
C22_OrphanedOutputDiscarded ==
    (sess.pos = "returned" /\ sess.ret # ClosedMarker) =>
        \A j \in 1..Len(sess.ret) :
            sess.ret[j].by = sess.calls \/ sess.ret[j].end # 0

(***************************************************************************)
(* C23 as stated: every run() call on a session uses a sentinel of its     *)
(* own: no two calls on the session use the same sentinel, however closely *)
(* they follow each other, and the line that ends the read loop of a call  *)
(* was printed for that call, never for an earlier one.                    *)
(***************************************************************************)
C23_SentinelUniquePerCall ==
    /\ \A i, j \in 1..Len(sess.used) : i # j => sess.used[i] # sess.used[j]
    /\ \A j \in 1..Len(sess.ret) :
           (sess.ret[j].end = sess.id /\ sess.ret # ClosedMarker) =>
               sess.ret[j].by = sess.calls

(***************************************************************************)
(* C27: terminate() is idempotent and never raises: it signals the         *)
(* subprocess only if it is still running, so at most once; a call made    *)
(* when the subprocess has exited, by itself or by an earlier terminate(), *)
(* changes nothing, and the session is left as one call leaves it.         *)
(***************************************************************************)
C27_Step ==
    (sess'.terminates > sess.terminates) =>
        /\ sess'.signals = sess.signals + (IF sess.proc = "running" THEN 1 ELSE 0)
        /\ sess'.proc = "exited"
        /\ sess'.pos = sess.pos /\ sess'.stdin = sess.stdin
        /\ sess'.q = sess.q /\ sess'.ret = sess.ret
        /\ sess.proc = "exited" =>
               sess' = [sess EXCEPT !.terminates = @ + 1, !.terminated = TRUE]

C27_SignalledAtMostOnce ==
    /\ sess.signals <= 1
    /\ sess.terminated => sess.proc = "exited"

\* C27: at every terminate() call and in every state
C27_TerminateIdempotent == [](C27_SignalledAtMostOnce) /\ [][C27_Step]_vars

C27_Witness ==
    /\ sess.terminates = 2 /\ sess.signals = 1 /\ sess.proc = "exited"

(***************************************************************************)
(* C24 as stated: run() calls made concurrently on one session are         *)
(* serialized: two calls are never both between their write and their     *)
(* return, and what a call returns holds only lines printed for its own    *)
(* command and sentinel.                                                   *)
(***************************************************************************)
C24_CallsSerialized ==
    /\ Cardinality({t \in CallerIds : callers[t].pos = "reading"}) <= 1
    /\ \A t \in CallerIds :
           (callers[t].pos = "returned" /\ callers[t].ret # ClosedMarker) =>
               \A j \in 1..Len(callers[t].ret) : callers[t].ret[j].by = callers[t].call

(***************************************************************************)
(* Vocabulary of the execution-strategy properties                         *)
(***************************************************************************)
\* a command of the running batch is executed in this step
CommandRuns == exec.phase = "loop" /\ exec.i <= Len(exec.commands) /\ exec' # exec

ThroughSession(o) == o.type \in {"session", "session error"}

OneShot(o) == o.type \in {"exit", "timeout", "oserror"}

(***************************************************************************)
(* C31: every command of a batch is executed by exactly one strategy: by   *)
(* the persistent session when the session map holds a session for the     *)
(* shell kind of the tool, by a fresh one-shot process otherwise; a        *)
(* session held for the other shell kind is never used by the tool.        *)
(***************************************************************************)
C31_Step ==
    CommandRuns =>
        /\ ThroughSession(exec'.last) # OneShot(exec'.last)
        /\ ThroughSession(exec'.last) <=> session_map[exec.kind] # "none"
        /\ exec.kind = ToolKind(rt.call.name)

C31_OneStrategyPerCommand == [][C31_Step]_vars

C31_Witness ==
    /\ rt.call.name = "powershell_tool" /\ session_map["bash"] = "live"
    /\ session_map["powershell"] = "none"
    /\ exec.phase = "loop" /\ exec.i = 2 /\ exec.last.type = "exit"

(***************************************************************************)
(* C37: for every shell tool call the directory the policy validator       *)
(* checks for containment is the directory in which the executor starts    *)
(* the batch of that call, an absent cwd argument and one outside the      *)
(* sandbox root included.                                                  *)
(***************************************************************************)
C37_ValidatedCwdIsStartCwd ==
    (exec.phase = "loop" /\ exec.results = <<>> /\ vcall.called)
        => vcall.cwd = PathStr(exec.cwd_path)

\* the result of the command executed in the step just taken
NewResult == Started'[Len(Started')]

(***************************************************************************)
(* C36: on the persistent-session path the reported returncode is 0 or 1:  *)
(* 1 exactly when session.run raised, 0 whenever it returned a value, so   *)
(* a batch on that path halts only on a raised session error.              *)
(***************************************************************************)
C36_Step ==
    (CommandRuns /\ ThroughSession(exec'.last)) =>
        /\ Len(Started') = Len(exec.results) + 1
        /\ NewResult.returncode \in {0, 1}
        /\ NewResult.returncode = 1 <=> exec'.last.type = "session error"
        /\ exec'.phase = "idle" <=> exec'.last.type = "session error"

C36_SessionReturncode == [][C36_Step]_vars

\* session.run returned nothing and the batch went on to its next command
C36_Witness ==
    /\ exec.phase = "loop" /\ exec.i = 2 /\ exec.last.type = "session"
    /\ exec.last.stdout = <<>> /\ exec.results[1].returncode = 0

(***************************************************************************)
(* C38: the cwd recorded in each per-command result is the working         *)
(* directory carried to the next command, and for the last result the cwd  *)
(* returned for the batch; with jailing on, the cwd of every result is the *)
(* sandbox root or a descendant of it.                                     *)
(***************************************************************************)
C38_ResultCwdIsCarriedCwd ==
    /\ (exec.phase = "loop" /\ exec.results # <<>>) =>
           exec.results[Len(exec.results)].cwd = PathStr(exec.cwd_path)
    /\ (tool_result.status = "returned" /\ tool_result.results # <<>>) =>
           LastResult.cwd = tool_result.cwd
    /\ POLICY.enforce_root_jail =>
           \A i \in 1..Len(Started) :
               IsRelativeTo(Resolve(Started[i].cwd), Resolve(POLICY.root_dir))

\* the snapshot last obtained reports a suspended task with an interrupt
SuspensionReported ==
    state_obj.some /\ state_obj.next /\ Len(state_obj.interrupts) >= 1

(***************************************************************************)
(* C34: whenever, after an invocation or a resume, the runtime reports a   *)
(* suspended task with at least one pending interrupt, the coordinator     *)
(* enters AwaitingApproval and prompts for a decision; it never prompts    *)
(* when no reported task has a pending interrupt.                          *)
(***************************************************************************)
C34_Step ==
    /\ (pc = "loop" /\ pc' # pc) =>
            /\ SuspensionReported => pc' = "decide"
            /\ ~SuspensionReported => pc' # "decide"
    /\ (pc' = "decide" /\ pc # "decide") => (pc = "loop" /\ SuspensionReported)
    /\ (prompt'.asked /\ prompt' # prompt) => (pc = "decide" /\ SuspensionReported)
    /\ (pc = "decide" /\ pc' # pc) => prompt'.asked

C34_PromptsIffInterruptPending == [][C34_Step]_vars

\* a prompt after a resume: the second tool call of the turn is suspended
C34_Witness ==
    /\ pc = "resume" /\ prompt.asked /\ rt.ncalls = 2 /\ rt.node = "interrupted"
    /\ SuspensionReported

(***************************************************************************)
(* Vocabulary of the read-loop properties                                  *)
(***************************************************************************)
\* the loop of run() takes a line from the queue in this step
Dequeues == sess.pos = "reading" /\ sess'.buf # sess.buf

\* run() returned at the line carrying its sentinel
ReturnedAtSentinel ==
    /\ sess.pos = "returned" /\ sess.ret # <<>> /\ sess.ret # ClosedMarker
    /\ sess.ret[Len(sess.ret)].end = sess.id

\* the lines a sequence holds are pairwise different
NoRepeats(lines) ==
    \A i, j \in 1..Len(lines) : lines[i] = lines[j] => i = j

(***************************************************************************)
(* C33: run() stops consuming at the first dequeued line that contains its *)
(* own sentinel: the returned output ends with that line, the lines the    *)
(* subprocess emitted after it stay in the queue for a later call, and a   *)
(* line containing the sentinel of a different call does not end the loop. *)
(***************************************************************************)
C33_Step ==
    /\ Dequeues =>
          LET line == Head(sess.q)
          IN  /\ sess'.buf = Append(sess.buf, line)
              /\ sess'.q = Tail(sess.q)
              /\ line.end = sess.id =>
                    /\ sess'.pos = "returned"
                    /\ sess'.ret = sess'.buf
                    /\ sess'.ret[Len(sess'.ret)] = line
              /\ line.end # sess.id => sess'.pos = "reading"
    /\ (sess.pos = "returned" /\ sess'.pos = "returned") =>
          (sess'.ret = sess.ret /\ IsPrefix(sess.q, sess'.q))

C33_FirstOwnSentinel ==
    ReturnedAtSentinel =>
        \A i \in 1..(Len(sess.ret) - 1) : sess.ret[i].end # sess.id

C33_StopsAtOwnSentinel == [](C33_FirstOwnSentinel) /\ [][C33_Step]_vars

\* the second call read past the sentinel line of the first, which had
\* timed out, and returned at its own; a later line is left in the queue
C33_Witness ==
    /\ ReturnedAtSentinel /\ sess.calls = 2 /\ Len(sess.ret) = 2
    /\ sess.ret[1].end # 0 /\ sess.ret[1].end # sess.id /\ sess.ret[1].by = 1
    /\ sess.q = <<Line("bg", 0, 2)>>

(***************************************************************************)
(* C39: with one reader thread and sequential run() calls no output line   *)
(* is lost, duplicated or reordered: every line the reader enqueues is     *)
(* returned by at most one run() call, and the outputs of all run() calls  *)
(* so far, concatenated, are a prefix of the lines the subprocess emitted. *)
(***************************************************************************)
C39_NoLineLostDuplicatedReordered ==
    /\ IsPrefix(sess.delivered, sess.emitted)
    /\ NoRepeats(sess.delivered)
    /\ sess.emitted =
          sess.delivered \o (IF sess.pos = "reading" THEN sess.buf ELSE <<>>) \o sess.q

\* two calls returned lines of both, and a line is still in the queue
C39_Witness ==
    /\ sess.pos = "returned" /\ sess.calls = 2
    /\ Len(sess.delivered) = 3 /\ sess.delivered[1].by = 1 /\ sess.delivered[3].by = 2
    /\ Len(sess.emitted) = 4

(***************************************************************************)
(* C35: the pending action is extracted from the interrupt value for every *)
(* shape of that value, without raising: a sequence that is not empty      *)
(* yields the entry of its first element under key action_request (an      *)
(* empty structure if the key is missing), a single structure yields       *)
(* itself, an absent or empty value yields an empty structure.             *)
(***************************************************************************)
C35_ActionExtracted ==
    /\ pc = "resume" => prompt.asked
    /\ prompt.asked =>
          LET value == prompt.value
              first == value.items[1]
          IN  /\ (value.shape = "list" /\ value.items # <<>> /\ first.has) =>
                     prompt.action_request = first.action_request
              /\ (value.shape = "list" /\ value.items # <<>> /\ ~first.has) =>
                     prompt.action_request = EmptyStructure
              /\ value.shape = "single" => prompt.action_request = value.self
              /\ (value.shape = "none" \/ (value.shape = "list" /\ value.items = <<>>)) =>
                     prompt.action_request = EmptyStructure

\* the first of two elements carries the action; the payload names its tool
C35_Witness ==
    /\ prompt.asked /\ prompt.entry = "package" /\ prompt.value.shape = "list"
    /\ Len(prompt.value.items) = 2
    /\ prompt.action_request = ActionRequest("dict", "", "bash_tool", "")
    /\ prompt.payload = [decisions |-> <<[type |-> "approve", tool |-> "bash_tool"]>>]

(***************************************************************************)
(* Vocabulary of the marker properties                                     *)
(***************************************************************************)
\* what was captured of the command parsed in this step, in lines
Captured == SplitLines(exec.last.stdout)

MarkerSeen == \E i \in 1..Len(Captured) : Captured[i] = _MARKER(exec.kind)

\* the first marker line
MarkerAt ==
    CHOOSE i \in 1..Len(Captured) :
        Captured[i] = _MARKER(exec.kind) /\ \A k \in 1..(i - 1) : Captured[k] # _MARKER(exec.kind)

\* a line that is not blank follows the first marker line
DirectoryFollows ==
    MarkerSeen /\ MarkerAt < Len(Captured) /\ Strip(Captured[MarkerAt + 1]) # <<>>

Parses == exec.last.type = "captured" /\ exec' # exec

(***************************************************************************)
(* C32 as stated: when the captured output contains the marker line, the   *)
(* stdout of the command is exactly the lines before the first marker line *)
(* and the new working directory is the line immediately after it if       *)
(* present and non-blank; when the marker is absent or no line follows it, *)
(* all captured output is the stdout (in the absent case) and the working  *)
(* directory is left unchanged.                                            *)
(***************************************************************************)
C32_OriginalStep ==
    Parses =>
        /\ MarkerSeen => NewResult.stdout = JoinLines(SubSeq(Captured, 1, MarkerAt - 1))
        /\ DirectoryFollows => NewResult.cwd = Captured[MarkerAt + 1]
        /\ ~MarkerSeen => NewResult.stdout = JoinLines(Captured)
        /\ (~MarkerSeen \/ MarkerAt = Len(Captured)) =>
              (NewResult.cwd = PathStr(exec.cwd_path) /\ exec'.cwd_path = exec.cwd_path)

C32_Original == [][C32_OriginalStep]_vars

(***************************************************************************)
(* C32: when the captured output contains the marker line, the stdout of   *)
(* the command is the lines before the first marker line, joined, without  *)
(* leading and trailing whitespace, and the new working directory is the   *)
(* line immediately after it without surrounding whitespace, if that is    *)
(* not blank; when the marker is absent, the stdout is all captured output *)
(* without leading and trailing whitespace; when the marker is absent, is  *)
(* the last line or is followed by a blank line, the working directory is  *)
(* left unchanged.                                                         *)
(***************************************************************************)
C32_Step ==
    Parses =>
        /\ MarkerSeen =>
              NewResult.stdout = Strip(JoinLines(SubSeq(Captured, 1, MarkerAt - 1)))
        /\ DirectoryFollows => NewResult.cwd = Strip(Captured[MarkerAt + 1])
        /\ ~MarkerSeen => NewResult.stdout = Strip(exec.last.stdout)
        /\ ~DirectoryFollows =>
              (NewResult.cwd = PathStr(exec.cwd_path) /\ exec'.cwd_path = exec.cwd_path)

C32_MarkerSplitsOutput == [][C32_Step]_vars

\* two marker lines: the output is cut at the first, the directory is the
\* line after the first
C32_Witness ==
    /\ exec.last.type = "exit" /\ Len(exec.results) = 1
    /\ exec.last.stdout = Printed(<<Hi, _MARKER(exec.kind), _MARKER(exec.kind)>>)
    /\ exec.results[1].stdout = Hi /\ exec.results[1].cwd = _MARKER(exec.kind)

====
